---------------------------- MODULE Spec2Model ----------------------------
(***************************************************************************)
(* A model of the world-simulation engine of The Monad (src/server/engine): *)
(* the party composer (parties.py), the economy ledger (economy.py), the   *)
(* politics engine (politics.py), the gossip engine (gossip.py), the       *)
(* trading engine (trading.py) and the orchestrator's handlers and tick    *)
(* (world.py).  Each subsystem has its own specification over the shared   *)
(* variables; the variables of the other subsystems stay at their value    *)
(* after construction.                                                     *)
(***************************************************************************)
EXTENDS Integers, Sequences, FiniteSets, TLC

VARIABLES
    \* ---- parties.py: one run of kleisli_compose ----
    vibes,          \* the vibe list passed in, each vibe with its random draw
    attendees,      \* the attendee list (personalities of the agents present)
    state,          \* the PartyState being threaded through the vibes
    vibe_idx,       \* position of the for loop (1-based index of the next vibe)
    party_pc,       \* "idle" | "loop" | "final" | "done"
    short_circuit,  \* TRUE once a vibe returned None and the loop broke
    \* ---- agents.py / economy.py: the agents' ledgers ----
    func_tokens,    \* agent -> FUNC balance
    \* ---- world.py: the Building ----
    tick,           \* Building.tick
    n_agents,       \* len(Building.agents): agents 1..n_agents are registered
    personality,    \* agent -> Agent.personality
    location,       \* agent -> Agent.location
    \* ---- politics.py ----
    faction,        \* agent -> Agent.faction ("none" for None)
    votes_cast,     \* agent -> Agent.votes_cast
    proposals,      \* PoliticsEngine.proposals: proposal id -> Proposal
    faction_members,\* PoliticsEngine.faction_members: faction -> list of agents
    faction_leaders,\* PoliticsEngine.faction_leaders: faction -> agent
    \* ---- gossip.py ----
    gossip_heard,       \* agent -> Agent.gossip_heard (a list of gossip ids)
    active_chains,      \* GossipEngine.active_chains: gossip id -> GossipMessage
    completed_chains,   \* GossipEngine.completed_chains (a list)
    \* ---- trading.py ----
    inventory,          \* agent -> Agent.inventory (a list of item ids)
    market_supply,      \* TradingEngine.market_supply: item id -> units
    market_prices,      \* TradingEngine.market_prices: item id -> price
    open_trades,        \* TradingEngine.open_trades: trade id -> TradeOffer
    completed_trades,   \* TradingEngine.completed_trades (a list)
    transaction_history,\* TradingEngine.transaction_history (a list)
    \* ---- world.py: parties thrown and duels fought ----
    parties,            \* Building.parties (as a list, in creation order)
    duel_history,       \* Building.duel_history (a list)
    \* ---- agents.py: what the agents remember of each other ----
    relationships,      \* agent -> (other agent -> Relationship)
    duel_record,        \* agent -> Agent.duel_record
    \* ---- combat.py: one run of resolve_duel ----
    duel,               \* the locals of resolve_duel and the position of its loop
    \* ---- landlord.py ----
    decrees,            \* Landlord.decrees (a list)
    active_effects,     \* Landlord.active_effects: decree id -> modifier
    events,             \* Landlord.events (a list)
    \* ---- exploration.py: quests ----
    available_quests,   \* ExplorationEngine.available_quests: quest id -> Quest
    quests,             \* the keys of ExplorationEngine.quests (accepted quests)
    active_quests,      \* agent -> Agent.active_quests (a list of quest ids)
    \* ---- world.py: the event log ----
    event_log,          \* Building.event_log (a list)
    \* ---- world.py and persistence.py: the counters and the saved files ----
    season,             \* Building.season
    episode,            \* Building.episode
    disk,               \* agents.json and world_state.json
    \* ---- main.py and routes.py: the coroutines of the event loop ----
    tasks,              \* the position of every request handler
    loop,               \* the coroutine that runs, or Free
    \* ---- agents.py: what the agents are and what they are known for ----
    stats,              \* agent -> Agent.stats
    clout,              \* agent -> Agent.clout
    \* ---- trading.py: the offers that have left the engine ----
    cancelled_trades,   \* trade id -> the TradeOffer that cancel_trade removed
    \* ---- the last command and what it returned ----
    last

partyVars == <<vibes, attendees, state, vibe_idx, party_pc, short_circuit>>
ledgerVars == <<func_tokens>>
worldVars == <<tick, n_agents, personality, location>>
politicsVars == <<faction, votes_cast, proposals, faction_members, faction_leaders>>
gossipVars == <<gossip_heard, active_chains, completed_chains>>
tradingVars == <<inventory, market_supply, market_prices, open_trades,
                 completed_trades, transaction_history>>
economyVars == <<tradingVars, parties, duel_history>>
socialVars == <<relationships, duel_record>>
duelVars == <<duel>>
landlordVars == <<decrees, active_effects, events>>
questVars == <<available_quests, quests, active_quests>>
logVars == <<event_log>>
persistVars == <<season, episode, disk>>
loopVars == <<tasks, loop>>
agentVars == <<stats, clout>>
offerVars == <<cancelled_trades>>
vars == <<partyVars, ledgerVars, worldVars, politicsVars, gossipVars, economyVars,
          socialVars, duelVars, landlordVars, questVars, logVars, persistVars,
          loopVars, agentVars, offerVars, last>>

Max(a, b) == IF a >= b THEN a ELSE b
Min(a, b) == IF a <= b THEN a ELSE b

NoCall == [op |-> "none", ok |-> TRUE]

\* item_id in agent.inventory
Holds(inv, item) == \E i \in DOMAIN inv : inv[i] = item

\* list.remove(item): the first occurrence goes
Remove(inv, item) ==
    LET i == CHOOSE i \in DOMAIN inv :
                 inv[i] = item /\ \A j \in 1..(i - 1) : inv[j] # item
    IN SubSeq(inv, 1, i - 1) \o SubSeq(inv, i + 1, Len(inv))

(***************************************************************************)
(* agents.py                                                               *)
(***************************************************************************)
Personalities ==
    <<"social_butterfly", "schemer", "drama_queen", "nerd", "chaos_gremlin",
      "conspiracy_theorist">>

PERSONALITY_STATS ==
    [social_butterfly    |-> [charisma |-> 8, creativity |-> 5, drama |-> 6, purity |-> 4, chaos |-> 3],
     schemer             |-> [charisma |-> 6, creativity |-> 8, drama |-> 5, purity |-> 3, chaos |-> 5],
     drama_queen         |-> [charisma |-> 7, creativity |-> 6, drama |-> 9, purity |-> 2, chaos |-> 6],
     nerd                |-> [charisma |-> 3, creativity |-> 7, drama |-> 2, purity |-> 9, chaos |-> 1],
     chaos_gremlin       |-> [charisma |-> 5, creativity |-> 7, drama |-> 7, purity |-> 1, chaos |-> 9],
     conspiracy_theorist |-> [charisma |-> 4, creativity |-> 9, drama |-> 8, purity |-> 2, chaos |-> 7]]

\* the keys of every stat profile
StatNames == {"charisma", "creativity", "drama", "purity", "chaos"}

\* random.randint(-1, 1) for every stat of a new agent
Jitters == [StatNames -> {-1, 0, 1}]
NoJitter == [k \in StatNames |-> 0]

\* create_agent: the profile of the personality, every stat moved by its
\* draw and kept inside [1, 10]
create_agent(p, jitter) ==
    [k \in StatNames |-> Max(1, Min(10, PERSONALITY_STATS[p][k] + jitter[k]))]

\* Agent.func_tokens: the starting balance
StartingFunc == 100

\* Agent.clout: the starting clout
StartingClout == 0

\* economy.py: CLOUT_REWARDS
CLOUT_REWARDS ==
    [throw_party |-> 15, great_party |-> 30, gossip_chain_5 |-> 25,
     gossip_chain_3 |-> 10, start_gossip |-> 5, explore_basement |-> 15,
     cook_for_others |-> 10, prank_success |-> 18, prank_backfire |-> 8,
     party_attendance |-> 5]

\* economy.py: award_clout with the default multiplier, on agent a of cl
award_clout(cl, a, action) ==
    [cl EXCEPT ![a] = @ + (IF action \in DOMAIN CLOUT_REWARDS
                           THEN CLOUT_REWARDS[action] ELSE 0)]

\* Agent.relationships starts empty and Agent.duel_record at zero
NoRelationships == <<>>
NoDuelRecord == [wins |-> 0, losses |-> 0, streak |-> 0]

\* Agent.modify_relationship on agent a of rels: the Relationship towards
\* target_id is created at affinity 0 if missing, the affinity moves by delta
\* inside [-100, 100], the interaction is counted and the event is appended
\* to the history, of which the last 20 entries are kept.
modify_relationship(rels, a, target_id, delta, event) ==
    LET mine == rels[a]
        old == IF target_id \in DOMAIN mine THEN mine[target_id]
               ELSE [affinity |-> 0, interactions |-> 0, history |-> <<>>]
        history == Append(old.history, event)
        new == [affinity |-> Max(-100, Min(100, old.affinity + delta)),
                interactions |-> old.interactions + 1,
                history |-> IF Len(history) > 20
                            THEN SubSeq(history, Len(history) - 19, Len(history))
                            ELSE history]
    IN [rels EXCEPT ![a] = [t \in DOMAIN mine \cup {target_id} |->
                               IF t = target_id THEN new ELSE mine[t]]]

(***************************************************************************)
(* parties.py: PartyState, the vibe functions and kleisli_compose          *)
(***************************************************************************)
\* Longest vibe list tried
MaxVibes == 4

PartyState0 ==
    [energy |-> 50, chaos |-> 20, bonding |-> 30, fun |-> 40, vibe_log |-> <<>>]

Vibe == {"chill", "karaoke", "drama", "mystery", "dance", "debate", "potluck"}

\* The vibes whose outcome depends on a random draw (karaoke: talent,
\* mystery: roll), resolved into the three branches of the code.
RandomVibes == {"karaoke", "mystery"}
ResolvedVibes ==
    {[vibe |-> v, roll |-> r] : v \in RandomVibes, r \in 1..3}
        \cup {[vibe |-> v, roll |-> 1] : v \in Vibe \ RandomVibes}

\* Attendee lists tried (the stats of an attendee are those of its
\* personality): nobody; one attendee with drama > 5 and chaos > 6; two
\* attendees, one with purity > 6, whose average chaos is below 6
Crowds == {{}, {"chaos_gremlin"}, {"nerd", "chaos_gremlin"}}

RECURSIVE SumChaos(_)
SumChaos(att) ==
    IF att = {} THEN 0
    ELSE LET a == CHOOSE x \in att : TRUE
         IN PERSONALITY_STATS[a].chaos + SumChaos(att \ {a})

Ok(s) == [ok |-> TRUE, st |-> s]
Nothing(s) == [ok |-> FALSE, st |-> s]
Log(s, entry) == [s EXCEPT !.vibe_log = Append(@, entry)]

\* a chill that resets chaos instead of lowering it by 20
vibe_chill_ResetsChaos(s, att) ==
    Ok(Log([s EXCEPT !.energy = Max(10, @ - 15),
                     !.chaos = 0,
                     !.bonding = @ + 15,
                     !.fun = @ + 5], "chill"))

vibe_chill(s, att) ==
    Ok(Log([s EXCEPT !.energy = Max(10, @ - 15),
                     !.chaos = Max(0, @ - 20),
                     !.bonding = @ + 15,
                     !.fun = @ + 5], "chill"))

vibe_karaoke(s, att, roll) ==
    IF s.energy < 20 THEN Nothing(Log(s, "karaoke_no_energy"))
    ELSE IF roll = 1   \* talent > 70
         THEN Ok(Log([s EXCEPT !.fun = @ + 30, !.bonding = @ + 20, !.energy = @ + 10],
                     "karaoke_crushed"))
    ELSE IF roll = 2   \* talent > 40
         THEN Ok(Log([s EXCEPT !.fun = @ + 15, !.energy = @ + 5], "karaoke_decent"))
    ELSE Ok(Log([s EXCEPT !.chaos = @ + 20, !.fun = @ + 10], "karaoke_terrible"))

vibe_drama(s, att) ==
    IF s.chaos < 10 /\ s.energy < 25 THEN Nothing(Log(s, "drama_too_zen"))
    ELSE IF \E a \in att : PERSONALITY_STATS[a].drama > 5
         THEN Ok(Log([s EXCEPT !.chaos = @ + 30, !.energy = @ + 20, !.fun = @ + 15,
                               !.bonding = @ - 10], "drama_instigated"))
    ELSE Ok(Log([s EXCEPT !.chaos = @ + 15, !.energy = @ + 10], "drama_mild"))

vibe_mystery(s, att, roll) ==
    IF roll = 1        \* roll < 0.3
    THEN Ok(Log([s EXCEPT !.chaos = @ + 25, !.fun = @ + 20], "mystery_note"))
    ELSE IF roll = 2   \* roll < 0.6
         THEN Ok(Log([s EXCEPT !.bonding = @ + 25, !.fun = @ + 15], "mystery_game"))
    ELSE Ok(Log([s EXCEPT !.chaos = @ + 15, !.energy = @ - 10], "mystery_sound"))

vibe_dance(s, att) ==
    IF s.energy < 30 THEN Nothing(Log(s, "dance_no_legs"))
    ELSE Ok(Log([s EXCEPT !.energy = @ - 20, !.fun = @ + 25, !.bonding = @ + 15,
                          !.chaos = @ + 10], "dance"))

vibe_debate(s, att) ==
    LET s1 == [s EXCEPT !.energy = @ + 10, !.chaos = @ + 15]
    IN IF \E a \in att : PERSONALITY_STATS[a].purity > 6
       THEN Ok(Log([s1 EXCEPT !.fun = @ + 10, !.bonding = @ + 5], "debate_heated"))
       ELSE Ok(Log([s1 EXCEPT !.fun = @ + 5], "debate_vibed"))

vibe_potluck(s, att) ==
    LET s1 == [s EXCEPT !.bonding = @ + 20, !.fun = @ + 15]
        \* chaos_level = sum / max(len, 1) > 6
    IN IF SumChaos(att) > 6 * Max(Cardinality(att), 1)
       THEN Ok(Log([s1 EXCEPT !.chaos = @ + 20], "potluck_adventurous"))
       ELSE Ok(Log([s1 EXCEPT !.chaos = @ + 5], "potluck_lovely"))

VIBE_FUNCTIONS(v, s, att) ==
    CASE v.vibe = "chill"   -> vibe_chill(s, att)
      [] v.vibe = "karaoke" -> vibe_karaoke(s, att, v.roll)
      [] v.vibe = "drama"   -> vibe_drama(s, att)
      [] v.vibe = "mystery" -> vibe_mystery(s, att, v.roll)
      [] v.vibe = "dance"   -> vibe_dance(s, att)
      [] v.vibe = "debate"  -> vibe_debate(s, att)
      [] v.vibe = "potluck" -> vibe_potluck(s, att)

Clamp100(x) == Max(0, Min(100, x))

ClampState(s) ==
    [s EXCEPT !.energy = Clamp100(@), !.chaos = Clamp100(@),
              !.bonding = Clamp100(@), !.fun = Clamp100(@)]

\* One iteration of the for loop: clamp, then call the vibe function
LoopBody(s, v, att) == VIBE_FUNCTIONS(v, ClampState(s), att)

\* kleisli_compose as a function of its inputs: the loop with its break, then
\* the final clamp
RECURSIVE LoopFrom(_, _, _, _)
LoopFrom(s, vs, i, att) ==
    IF i > Len(vs) THEN s
    ELSE LET r == LoopBody(s, vs[i], att)
         IN IF r.ok THEN LoopFrom(r.st, vs, i + 1, att) ELSE r.st

\* the state when the for loop is left
ComposeLoop(vs, att) == LoopFrom(PartyState0, vs, 1, att)

kleisli_compose(vs, att) == ClampState(ComposeLoop(vs, att))

Axes(s) == <<s.energy, s.chaos, s.bonding, s.fun>>

VibeLists == UNION {[1..n -> ResolvedVibes] : n \in 0..MaxVibes}

InitParty ==
    /\ vibes \in VibeLists
    /\ attendees \in Crowds
    /\ state = PartyState0
    /\ vibe_idx = 1
    /\ party_pc = IF vibes = <<>> THEN "final" ELSE "loop"
    /\ short_circuit = FALSE

IdleParty ==
    /\ vibes = <<>>
    /\ attendees = {}
    /\ state = PartyState0
    /\ vibe_idx = 1
    /\ party_pc = "idle"
    /\ short_circuit = FALSE

\* the loop with "continue" in place of "break" when a vibe returns None
KleisliStep_Continue ==
    /\ party_pc = "loop"
    /\ LET r == LoopBody(state, vibes[vibe_idx], attendees)
       IN /\ state' = r.st
          /\ short_circuit' = (short_circuit \/ ~r.ok)
          /\ IF vibe_idx = Len(vibes)
             THEN /\ party_pc' = "final"
                  /\ vibe_idx' = IF r.ok THEN vibe_idx + 1 ELSE vibe_idx
             ELSE /\ party_pc' = "loop"
                  /\ vibe_idx' = vibe_idx + 1
    /\ UNCHANGED <<socialVars, duelVars, landlordVars, questVars, logVars, persistVars, loopVars, offerVars, agentVars, vibes, attendees, ledgerVars, worldVars,
                   politicsVars, gossipVars, economyVars, last>>

\* for vibe in vibes: ... result = vibe_fn(state, attendees); break on None
KleisliStep ==
    /\ party_pc = "loop"
    /\ LET r == LoopBody(state, vibes[vibe_idx], attendees)
       IN /\ state' = r.st
          /\ IF r.ok
             THEN /\ vibe_idx' = vibe_idx + 1
                  /\ party_pc' = IF vibe_idx = Len(vibes) THEN "final" ELSE "loop"
                  /\ short_circuit' = FALSE
             ELSE /\ vibe_idx' = vibe_idx
                  /\ party_pc' = "final"
                  /\ short_circuit' = TRUE
    /\ UNCHANGED <<socialVars, duelVars, landlordVars, questVars, logVars, persistVars, loopVars, offerVars, agentVars, vibes, attendees, ledgerVars, worldVars,
                   politicsVars, gossipVars, economyVars, last>>

\* a return without the final clamp
KleisliFinal_NoClamp ==
    /\ party_pc = "final"
    /\ party_pc' = "done"
    /\ UNCHANGED <<socialVars, duelVars, landlordVars, questVars, logVars, persistVars, loopVars, offerVars, agentVars, state, vibes, attendees, vibe_idx, short_circuit,
                   ledgerVars, worldVars,
                   politicsVars, gossipVars, economyVars, last>>

\* the final clamp and the return
KleisliFinal ==
    /\ party_pc = "final"
    /\ state' = ClampState(state)
    /\ party_pc' = "done"
    /\ UNCHANGED <<socialVars, duelVars, landlordVars, questVars, logVars, persistVars, loopVars, offerVars, agentVars, vibes, attendees, vibe_idx, short_circuit,
                   ledgerVars, worldVars,
                   politicsVars, gossipVars, economyVars, last>>

\* trading.py: the market.  One of the twelve items is followed.
MARKET_ITEMS == [fortune_cookie |-> [base_price |-> 5]]

MarketItems == DOMAIN MARKET_ITEMS

\* random.randint(3, 10) units of every item at construction: the draw followed
InitialSupply == 3

\* a restock that relaxes the prices and leaves the supply as it is
restock_market_PricesOnly(supply, prices) ==
    [supply |-> supply,
     prices |-> [item \in DOMAIN prices |->
                    LET base == MARKET_ITEMS[item].base_price
                        current == prices[item]
                    IN IF current # base
                       THEN current + (IF current < base THEN 1 ELSE -1)
                       ELSE current]]

\* TradingEngine.restock_market
restock_market(supply, prices) ==
    [supply |-> [item \in DOMAIN supply |->
                    IF supply[item] < 3 THEN supply[item] + 1 ELSE supply[item]],
     prices |-> [item \in DOMAIN prices |->
                    LET base == MARKET_ITEMS[item].base_price
                        current == prices[item]
                    IN IF current # base
                       THEN current + (IF current < base THEN 1 ELSE -1)
                       ELSE current]]

IdleLedger == func_tokens = <<>>

IdleWorld == tick = 0 /\ n_agents = 0 /\ personality = <<>> /\ location = <<>>

\* politics.py: the values of Faction
Factions == {"purists", "chaoticians", "schemers", "mystics", "unbound"}

\* PoliticsEngine.__init__, and no agent yet
IdlePolitics ==
    /\ faction = <<>>
    /\ votes_cast = <<>>
    /\ proposals = <<>>
    /\ faction_members = [f \in Factions |-> <<>>]
    /\ faction_leaders = <<>>

IdleGossip == gossip_heard = <<>> /\ active_chains = <<>> /\ completed_chains = <<>>

\* TradingEngine.__init__, and Building.parties and Building.duel_history
IdleEconomy ==
    /\ inventory = <<>>
    /\ market_supply = [item \in MarketItems |-> InitialSupply]
    /\ market_prices = [item \in MarketItems |-> MARKET_ITEMS[item].base_price]
    /\ open_trades = <<>>
    /\ completed_trades = <<>>
    /\ transaction_history = <<>>
    /\ parties = <<>>
    /\ duel_history = <<>>

\* no agent yet, so nobody to remember and no duel record
IdleSocial == relationships = <<>> /\ duel_record = <<>> /\ active_quests = <<>>

\* resolve_duel is not running
NoDuel == [pc |-> "idle"]

IdleDuel == duel = NoDuel

\* Landlord.__init__
IdleLandlord == decrees = <<>> /\ active_effects = <<>> /\ events = <<>>

\* Building.__init__
IdleLog == event_log = <<>>

(***************************************************************************)
(* main.py and routes.py: the event loop and its coroutines                *)
(***************************************************************************)
\* the request handlers that may be in flight at once
Handlers == {"h1", "h2"}

\* no coroutine runs
Free == "free"

\* no request is in flight
NoTasks == [h \in Handlers |-> [pc |-> "none"]]

\* the server has started: the loop is free and no request has arrived
IdleLoop == tasks = NoTasks /\ loop = Free

\* no agent yet: nobody has stats or clout
IdleAgents == stats = <<>> /\ clout = <<>>

\* no offer has been cancelled
IdleOffers == cancelled_trades = <<>>

(***************************************************************************)
(* persistence.py: the saved files                                         *)
(***************************************************************************)
\* no file has been written
NoFiles == [saved |-> FALSE]

\* Building.__init__ on a data directory without files
IdlePersist == season = 1 /\ episode = 1 /\ disk = NoFiles

\* save_agents: the fields of an agent that are written (of those that the
\* model holds)
save_agents(n, pers, loc, func, fac, record, votes, inv, cl) ==
    [a \in 1..n |->
        [id |-> a, personality |-> pers[a], location |-> loc[a],
         func_tokens |-> func[a], faction |-> fac[a], duel_record |-> record[a],
         votes_cast |-> votes[a], inventory |-> inv[a], clout |-> cl[a]]]

\* auto_save: save_agents, then save_world_state (the payments are not
\* followed)
auto_save(n, pers, loc, func, fac, record, votes, inv, cl, t, s, e) ==
    [saved |-> TRUE,
     agents |-> save_agents(n, pers, loc, func, fac, record, votes, inv, cl),
     tick |-> t, season |-> s, episode |-> e]

\* a log that is never cut
_log_event_NoCap(log, event_type, data, tick_now) ==
    Append(log, [type |-> event_type, tick |-> tick_now, data |-> data])

\* Building._log_event: the entry is appended, and a log of more than 1000
\* entries is cut to its last 500.  (The log is followed for agent_talk and
\* duel; the entries that the other handlers append are not.)
_log_event(log, event_type, data, tick_now) ==
    LET appended == Append(log, [type |-> event_type, tick |-> tick_now, data |-> data])
    IN IF Len(appended) > 1000
       THEN SubSeq(appended, Len(appended) - 499, Len(appended))
       ELSE appended

\* QUEST_TEMPLATES: the action_required of the steps of each quest.  A tag
\* is the list of its words ("move_to_basement" is move, to, basement), so
\* that one tag can occur inside another as it can in the strings.
QUEST_TEMPLATES ==
    << << <<"move", "to", "basement">>, <<"explore">>, <<"talk", "about", "basement">> >>,
       << <<"gossip", "start">>, <<"gossip", "chain", "3">>, <<"gossip", "chain", "5">> >>,
       << <<"throw", "party">>, <<"throw", "party", "unique">>,
          <<"throw", "party", "unique", "2">> >>,
       << <<"visit", "rooftop">>, <<"visit", "floor", "3">>, <<"visit", "floor", "2">>,
          <<"visit", "floor", "1">>, <<"visit", "basement">> >>,
       << <<"make", "friend", "1">>, <<"make", "friend", "2">>, <<"make", "friend", "3">>,
          <<"make", "friend", "4">>, <<"make", "friend", "5">> >>,
       << <<"prank", "1">>, <<"prank", "2">>, <<"prank", "3">>,
          <<"controversial", "proposal">> >>,
       << <<"duel", "win", "1">>, <<"duel", "win", "2">>, <<"duel", "win", "3">> >> >>

\* no agent (Quest.assigned_to is None)
Nobody == 0

\* the Quest that _generate_initial_quests makes of a template (the quest id,
\* a uuid4, is the template's position)
Quest(template) ==
    [steps |-> [i \in DOMAIN template |->
                   [action_required |-> template[i], completed |-> FALSE]],
     current_step |-> 0,
     assigned_to |-> Nobody,
     status |-> "available"]

\* ExplorationEngine.__init__
IdleQuests ==
    /\ available_quests = [q \in DOMAIN QUEST_TEMPLATES |-> Quest(QUEST_TEMPLATES[q])]
    /\ quests = {}

NextParty == KleisliStep \/ KleisliFinal

PartyInit ==
    InitParty /\ IdleLedger /\ IdleWorld /\ IdlePolitics /\ IdleGossip /\ IdleEconomy /\ IdleSocial /\ IdleDuel /\ IdleLandlord /\ IdleQuests /\ IdleLog /\ IdlePersist /\ IdleLoop /\ IdleAgents /\ IdleOffers
    /\ last = NoCall

SpecParty == PartyInit /\ [][NextParty]_vars

(***************************************************************************)
(* economy.py: transfer_func                                               *)
(***************************************************************************)
\* Largest balance the two agents of a transfer start with
MaxBalance == 3

\* The two Agent objects a transfer is called with
TransferAgents == {"a1", "a2"}
TransferBalances == -1..MaxBalance
TransferAmounts == -1..(MaxBalance + 1)

\* a transfer that only checks the amount's sign
transfer_func_NoBalanceCheck(ft, sender, receiver, amount) ==
    IF amount > 0
    THEN [ok |-> TRUE,
          ft |-> [ft EXCEPT ![sender] = @ - amount, ![receiver] = @ + amount]]
    ELSE [ok |-> FALSE, ft |-> ft]

transfer_func(ft, sender, receiver, amount) ==
    IF ft[sender] >= amount /\ amount > 0
    THEN [ok |-> TRUE,
          ft |-> [ft EXCEPT ![sender] = @ - amount, ![receiver] = @ + amount]]
    ELSE [ok |-> FALSE, ft |-> ft]

InitTransfer == func_tokens \in [TransferAgents -> TransferBalances]

\* one call transfer_func(sender, receiver, amount), in either direction
Transfer(s, r, amount) ==
    LET res == transfer_func(func_tokens, s, r, amount)
    IN /\ func_tokens' = res.ft
       /\ last' = [op |-> "transfer_func", sender |-> s, receiver |-> r,
                   amount |-> amount, ok |-> res.ok]
       /\ UNCHANGED <<socialVars, duelVars, landlordVars, questVars, logVars, persistVars, loopVars, offerVars, agentVars, partyVars, worldVars, politicsVars, gossipVars,
                      economyVars>>

NextTransfer ==
    \E s \in TransferAgents, amount \in TransferAmounts :
        \E r \in TransferAgents \ {s} : Transfer(s, r, amount)

TransferInit ==
    InitTransfer /\ IdleParty /\ IdleWorld /\ IdlePolitics /\ IdleGossip /\ IdleEconomy /\ IdleSocial /\ IdleDuel /\ IdleLandlord /\ IdleQuests /\ IdleLog /\ IdlePersist /\ IdleLoop /\ IdleAgents /\ IdleOffers
    /\ last = NoCall

SpecTransfer == TransferInit /\ [][NextTransfer]_vars

(***************************************************************************)
(* Claims about transfer_func (checked under SpecTransfer)                 *)
(***************************************************************************)
\* C2: every call transfer_func(sender, receiver, amount) with amount > 0 and
\* sender balance >= amount takes exactly amount from the sender, gives
\* exactly amount to the receiver and keeps the sum of the two balances;
\* every other call fails and leaves both balances unchanged.
C2_TransferConserves ==
    [][last'.op = "transfer_func" =>
        LET s == last'.sender
            r == last'.receiver
            amount == last'.amount
        IN IF amount > 0 /\ func_tokens[s] >= amount
           THEN /\ last'.ok
                /\ func_tokens'[s] = func_tokens[s] - amount
                /\ func_tokens'[r] = func_tokens[r] + amount
                /\ func_tokens'[s] + func_tokens'[r] = func_tokens[s] + func_tokens[r]
           ELSE /\ ~last'.ok
                /\ func_tokens' = func_tokens]_vars

\* C2 witness: a transfer of the sender's whole balance went through
C2_Witness ==
    /\ last.op = "transfer_func"
    /\ last.ok
    /\ func_tokens[last.sender] = 0
    /\ func_tokens[last.receiver] > last.amount

(***************************************************************************)
(* Claims about kleisli_compose (checked under SpecParty)                  *)
(***************************************************************************)
InRange(s) ==
    \A x \in {s.energy, s.chaos, s.bonding, s.fun} : x >= 0 /\ x <= 100

\* The vibes that ran to completion before the loop broke
SuccessfulPrefix == SubSeq(vibes, 1, vibe_idx - 1)

FailureEntries == {"karaoke_no_energy", "dance_no_legs", "drama_too_zen"}

\* C8 (as claimed): when a vibe's precondition fails, the final state is the
\* state as of the last successful vibe: the axes and the log hold only what
\* the successful vibes produced, so the log has one entry per successful
\* vibe and none for the failed one.
C8_FinalIsLastSuccess ==
    (party_pc = "done" /\ short_circuit) =>
        /\ state = kleisli_compose(SuccessfulPrefix, attendees)
        /\ Len(state.vibe_log) = vibe_idx - 1

\* C8 (amended): when a vibe's precondition fails (karaoke with energy < 20,
\* dance with energy < 30, drama with chaos < 10 and energy < 25) no later
\* vibe is applied and the four axes are those the successful vibes produced;
\* the log holds one entry per successful vibe followed by one entry written
\* by the failed vibe.
C8_ShortCircuit ==
    (party_pc = "done" /\ short_circuit) =>
        LET ref == kleisli_compose(SuccessfulPrefix, attendees)
            failed == vibes[vibe_idx].vibe
        IN /\ Axes(state) = Axes(ref)
           /\ Len(state.vibe_log) = vibe_idx
           /\ SubSeq(state.vibe_log, 1, vibe_idx - 1) = ref.vibe_log
           /\ state.vibe_log[vibe_idx] \in FailureEntries
           /\ \/ failed = "karaoke" /\ ref.energy < 20
              \/ failed = "dance" /\ ref.energy < 30
              \/ failed = "drama" /\ ref.chaos < 10 /\ ref.energy < 25

\* C8 witness: a run that broke at a failed vibe with a later vibe left over
C8_Witness ==
    /\ party_pc = "done"
    /\ short_circuit
    /\ vibe_idx < Len(vibes)
    /\ vibe_idx > 1

\* C9 (as claimed): each of the four axes lies in [0,100] after every step
\* of kleisli_compose and in the final state.
C9_AxesInRangeAfterEveryStep == party_pc # "idle" => InRange(state)

\* C9 (amended): each axis lies in [0,100] in the state every vibe function
\* is called with and in the final state returned; right after a vibe has
\* run (before the next clamp) an axis lies in [-10,130].
C9_AxesInRange ==
    /\ party_pc = "done" => InRange(state)
    /\ party_pc = "loop" => InRange(ClampState(state))
    /\ party_pc # "idle" =>
          \A x \in {state.energy, state.chaos, state.bonding, state.fun} :
              x >= -10 /\ x <= 130

\* C9 witness: a final state whose last step had left an axis above 100
C9_Witness ==
    /\ party_pc = "done"
    /\ ~short_circuit
    /\ state.fun = 100
    /\ ~InRange(ComposeLoop(vibes, attendees))

Reorderings(vs) ==
    LET n == Len(vs)
        perms == {f \in [1..n -> 1..n] : \A i, j \in 1..n : i # j => f[i] # f[j]}
    IN {[i \in 1..n |-> vs[f[i]]] : f \in perms}

MaxAgents == 11
MaxTick == 2

ProposalIds == {"p1"}
FactionInputs == {"purists", "landlords"}
FactionJoiners == {1}
OptionInputs == {<<>>, <<"no", "yes">>}
Proposers == {1}
\* the votes the agents try: <<agent, choice>>
VoteInputs == {<<1, "yes">>, <<1, "no">>, <<1, "maybe">>,
               <<2, "yes">>, <<2, "no">>,
               <<3, "no">>,
               <<4, "yes">>}
NoFaction == "none"
NoResult == "none"

Range(f) == {f[i] : i \in DOMAIN f}

\* Building.register_agent / create_agent: a new agent enters the lobby with
\* the starting balance, an empty inventory, no faction, no votes cast and
\* no gossip heard.
RegisterAgent(limit, p, jitter) ==
    /\ n_agents < limit
    /\ stats' = Append(stats, create_agent(p, jitter))
    /\ clout' = Append(clout, StartingClout)
    /\ n_agents' = n_agents + 1
    /\ personality' = Append(personality, p)
    /\ location' = Append(location, "lobby")
    /\ func_tokens' = Append(func_tokens, StartingFunc)
    /\ faction' = Append(faction, NoFaction)
    /\ votes_cast' = Append(votes_cast, 0)
    /\ gossip_heard' = Append(gossip_heard, <<>>)
    /\ inventory' = Append(inventory, <<>>)
    /\ relationships' = Append(relationships, NoRelationships)
    /\ duel_record' = Append(duel_record, NoDuelRecord)
    /\ active_quests' = Append(active_quests, <<>>)
    /\ last' = [op |-> "register", ok |-> TRUE]
    /\ UNCHANGED <<duelVars, landlordVars, logVars, persistVars, loopVars, offerVars, available_quests, quests, partyVars, tick, proposals, faction_members,
                   faction_leaders, active_chains,
                   completed_chains,
                   market_supply, market_prices, open_trades, completed_trades,
                   transaction_history, parties, duel_history>>

\* a registration whose draws all came out 0
Register(limit, p) == RegisterAgent(limit, p, NoJitter)

\* politics.py: FACTION_INFO[faction]["bonuses"]
FACTION_BONUSES ==
    [purists     |-> [purity |-> 2, chaos |-> -1],
     chaoticians |-> [chaos |-> 2, creativity |-> 1],
     schemers    |-> [creativity |-> 2, drama |-> 1],
     mystics     |-> [drama |-> 1, creativity |-> 1, chaos |-> 1],
     unbound     |-> [charisma |-> 2, chaos |-> 1]]

\* join_faction, the bonuses: every stat the faction names moves by the
\* bonus and is kept inside [1, 10]
faction_bonuses(st, faction_name) ==
    LET bonuses == FACTION_BONUSES[faction_name] IN
    [k \in DOMAIN st |-> IF k \in DOMAIN bonuses
                         THEN Max(1, Min(10, st[k] + bonuses[k]))
                         ELSE st[k]]

\* a join that leaves the agent on the roster of the faction it was in
leave_faction_Stay(members, a, old_faction) == members

\* PoliticsEngine.join_faction, "Leave current faction if any"
leave_faction(members, a, old_faction) ==
    IF /\ old_faction # NoFaction
       /\ old_faction \in DOMAIN members
       /\ Holds(members[old_faction], a)
    THEN [members EXCEPT ![old_faction] = Remove(@, a)]
    ELSE members

\* Building.join_faction / PoliticsEngine.join_faction.  (The faction's
\* bonuses to agent.stats are not followed.)
JoinFaction(a, faction_name) ==
    /\ IF a > n_agents \/ faction_name \notin Factions
       THEN /\ UNCHANGED <<faction, faction_members, faction_leaders, stats>>
            /\ last' = [op |-> "join_faction", agent |-> a, faction |-> faction_name,
                        ok |-> FALSE]
       ELSE LET left == leave_faction(faction_members, a, faction[a])
                joined == [left EXCEPT ![faction_name] = Append(@, a)]
            IN /\ faction' = [faction EXCEPT ![a] = faction_name]
               /\ faction_members' = joined
               /\ faction_leaders' =
                     IF Len(joined[faction_name]) = 1
                     THEN [f \in DOMAIN faction_leaders \cup {faction_name} |->
                              IF f = faction_name THEN a ELSE faction_leaders[f]]
                     ELSE faction_leaders
               /\ stats' = [stats EXCEPT ![a] = faction_bonuses(@, faction_name)]
               /\ last' = [op |-> "join_faction", agent |-> a, faction |-> faction_name,
                           ok |-> TRUE]
    /\ UNCHANGED <<socialVars, duelVars, landlordVars, questVars, logVars, persistVars, loopVars, offerVars, clout, partyVars, ledgerVars, worldVars, gossipVars,
                   economyVars, votes_cast, proposals>>

\* PoliticsEngine.create_proposal: the Proposal it stores
Proposal(options) ==
    [options |-> IF options = <<>> THEN <<"yes", "no">> ELSE options,
     votes |-> <<>>,
     faction_support |-> <<>>,
     status |-> "active",
     result |-> NoResult]

\* Building.create_proposal / PoliticsEngine.create_proposal
CreateProposal(a, pid, options) ==
    /\ pid \notin DOMAIN proposals
    /\ IF a > n_agents
       THEN /\ proposals' = proposals
            /\ last' = [op |-> "create_proposal", ok |-> FALSE]
       ELSE /\ proposals' = (pid :> Proposal(options)) @@ proposals
            /\ last' = [op |-> "create_proposal", ok |-> TRUE]
    /\ UNCHANGED <<socialVars, duelVars, landlordVars, questVars, logVars, persistVars, loopVars, offerVars, agentVars, partyVars, ledgerVars, worldVars, gossipVars,
                   economyVars, faction, votes_cast, faction_members, faction_leaders>>

\* PoliticsEngine._tally_votes
_tally_votes(p) ==
    [opt \in Range(p.options) \cup Range(p.votes) |->
        Cardinality({a \in DOMAIN p.votes : p.votes[a] = opt})]

\* faction_support.get(faction, 0) + 1
BumpSupport(fs, f) ==
    IF f \in DOMAIN fs THEN [fs EXCEPT ![f] = @ + 1] ELSE (f :> 1) @@ fs

vote_NoVotedCheck(ps, a, agent_faction, pid, choice) ==
    IF pid \notin DOMAIN ps THEN [ok |-> FALSE, ps |-> ps]
    ELSE IF ps[pid].status # "active" THEN [ok |-> FALSE, ps |-> ps]
    ELSE IF choice \notin Range(ps[pid].options) THEN [ok |-> FALSE, ps |-> ps]
    ELSE [ok |-> TRUE,
          ps |-> [ps EXCEPT ![pid].votes = (a :> choice) @@ @,
                            ![pid].faction_support =
                                IF agent_faction # NoFaction
                                THEN BumpSupport(@, agent_faction) ELSE @]]

vote_NoStatusCheck(ps, a, agent_faction, pid, choice) ==
    IF pid \notin DOMAIN ps THEN [ok |-> FALSE, ps |-> ps]
    ELSE IF choice \notin Range(ps[pid].options) THEN [ok |-> FALSE, ps |-> ps]
    ELSE IF a \in DOMAIN ps[pid].votes THEN [ok |-> FALSE, ps |-> ps]
    ELSE [ok |-> TRUE,
          ps |-> [ps EXCEPT ![pid].votes = (a :> choice) @@ @,
                            ![pid].faction_support =
                                IF agent_faction # NoFaction
                                THEN BumpSupport(@, agent_faction) ELSE @]]

\* PoliticsEngine.vote: the result's success flag and the proposals after it
vote(ps, a, agent_faction, pid, choice) ==
    IF pid \notin DOMAIN ps THEN [ok |-> FALSE, ps |-> ps]
    ELSE IF ps[pid].status # "active" THEN [ok |-> FALSE, ps |-> ps]
    ELSE IF choice \notin Range(ps[pid].options) THEN [ok |-> FALSE, ps |-> ps]
    ELSE IF a \in DOMAIN ps[pid].votes THEN [ok |-> FALSE, ps |-> ps]
    ELSE [ok |-> TRUE,
          ps |-> [ps EXCEPT ![pid].votes = (a :> choice) @@ @,
                            ![pid].faction_support =
                                IF agent_faction # NoFaction
                                THEN BumpSupport(@, agent_faction) ELSE @]]

\* Building.vote_on_proposal
VoteOnProposal(a, pid, choice) ==
    /\ IF a > n_agents
       THEN /\ UNCHANGED <<proposals, votes_cast>>
            /\ last' = [op |-> "vote", agent |-> a, proposal |-> pid,
                        choice |-> choice, ok |-> FALSE]
       ELSE LET r == vote(proposals, a, faction[a], pid, choice) IN
            /\ proposals' = r.ps
            /\ votes_cast' = IF r.ok THEN [votes_cast EXCEPT ![a] = @ + 1]
                             ELSE votes_cast
            /\ last' = [op |-> "vote", agent |-> a, proposal |-> pid,
                        choice |-> choice, ok |-> r.ok]
    /\ UNCHANGED <<socialVars, duelVars, landlordVars, questVars, logVars, persistVars, loopVars, offerVars, agentVars, partyVars, ledgerVars, worldVars, gossipVars,
                   economyVars, faction, faction_members, faction_leaders>>

\* max(3, int(total_agents * 0.3)): int() truncates, and 3n/10 >= 0
min_votes(total_agents) == Max(3, (3 * total_agents) \div 10)

\* the winner taken as the last of the options that share the largest count
Winner_LastOfTied(p) ==
    LET i == CHOOSE i \in 1..Len(p.options) :
                /\ \A j \in 1..Len(p.options) :
                      Cardinality({a \in DOMAIN p.votes : p.votes[a] = p.options[j]})
                         <= Cardinality({a \in DOMAIN p.votes : p.votes[a] = p.options[i]})
                /\ \A j \in (i + 1)..Len(p.options) :
                      Cardinality({a \in DOMAIN p.votes : p.votes[a] = p.options[j]})
                         < Cardinality({a \in DOMAIN p.votes : p.votes[a] = p.options[i]})
    IN p.options[i]

\* max(tally.items(), key=lambda x: x[1]): the first option, in the order of
\* the option list, whose count is the largest
Winner(p) ==
    LET tally == _tally_votes(p)
        i == CHOOSE i \in 1..Len(p.options) :
                /\ \A j \in 1..Len(p.options) : tally[p.options[j]] <= tally[p.options[i]]
                /\ \A j \in 1..(i - 1) : tally[p.options[j]] < tally[p.options[i]]
    IN p.options[i]

\* the proposal once resolved (resolved_tick is written and never read)
Resolved(p) ==
    [p EXCEPT !.result = Winner(p),
              !.status = IF Winner(p) # "no" THEN "passed" ELSE "failed"]

\* a resolution that waits for one vote more than the quorum
resolve_proposal_Late(p, total_agents) ==
    IF p.status # "active" THEN [resolved |-> FALSE, p |-> p]
    ELSE IF Cardinality(DOMAIN p.votes) <= min_votes(total_agents)
    THEN [resolved |-> FALSE, p |-> p]
    ELSE [resolved |-> TRUE, p |-> Resolved(p)]

\* PoliticsEngine.resolve_proposal: whether it returned a result (not None),
\* and the proposal after the call
resolve_proposal(p, total_agents) ==
    IF p.status # "active" THEN [resolved |-> FALSE, p |-> p]
    ELSE IF Cardinality(DOMAIN p.votes) < min_votes(total_agents)
    THEN [resolved |-> FALSE, p |-> p]
    ELSE [resolved |-> TRUE, p |-> Resolved(p)]

(***************************************************************************)
(* gossip.py and world.py: rumor chains.  A text is a list of phrases, a   *)
(* full stop being a phrase of its own, so that formatting a template,     *)
(* lower-casing and the replacement of the first full stop are what they   *)
(* are on the strings.                                                     *)
(***************************************************************************)
GossipIds == {"g1"}
\* the personality the k-th agent registers with
Entrant(k) == IF k % 2 = 1 THEN "drama_queen" ELSE "nerd"
Destinations == {"lobby", "kitchen", "atlantis"}
LOCATIONS == {"lobby", "kitchen"}

GOSSIP_AMPLIFIERS ==
    [social_butterfly    |-> [credibility_mod |-> -5,  spiciness_mod |-> 15],
     schemer             |-> [credibility_mod |-> 5,   spiciness_mod |-> 10],
     drama_queen         |-> [credibility_mod |-> -15, spiciness_mod |-> 30],
     nerd                |-> [credibility_mod |-> 20,  spiciness_mod |-> -15],
     chaos_gremlin       |-> [credibility_mod |-> -20, spiciness_mod |-> 25],
     conspiracy_theorist |-> [credibility_mod |-> -10, spiciness_mod |-> 20]]

\* The texts rumors are started with
ContentInputs == {<<"The elevator is haunted", ".">>}

\* templates of GOSSIP_AMPLIFIERS: the first two of the personalities that
\* register, each as the phrases before and after {content}
TEMPLATES ==
    [drama_queen |->
        <<[pre |-> <<"I am SHAKING", ".">>,
           post |-> <<"!! This is the BIGGEST thing to happen here!!">>],
          [pre |-> <<"STOP EVERYTHING", ".">>,
           post |-> <<".", "I literally cannot right now", ".">>]>>,
     nerd |->
        <<[pre |-> <<"Well, technically,">>,
           post |-> <<".", "Though I'd want to verify", ".">>],
          [pre |-> <<"From what I can gather,">>,
           post |-> <<".", "The evidence is circumstantial", ".">>]>>]

\* str.lower on the phrases that have capitals
LOWER ==
    [p \in {"The elevator is haunted", "I am SHAKING", "STOP EVERYTHING",
            "!! This is the BIGGEST thing to happen here!!",
            "I literally cannot right now", "Well, technically,",
            "Though I'd want to verify", "From what I can gather,",
            "The evidence is circumstantial"} |->
        CASE p = "The elevator is haunted" -> "the elevator is haunted"
          [] p = "I am SHAKING" -> "i am shaking"
          [] p = "STOP EVERYTHING" -> "stop everything"
          [] p = "!! This is the BIGGEST thing to happen here!!" ->
                 "!! this is the biggest thing to happen here!!"
          [] p = "I literally cannot right now" -> "i literally cannot right now"
          [] p = "Well, technically," -> "well, technically,"
          [] p = "Though I'd want to verify" -> "though i'd want to verify"
          [] p = "From what I can gather," -> "from what i can gather,"
          [] p = "The evidence is circumstantial" -> "the evidence is circumstantial"]

lower(text) ==
    [i \in DOMAIN text |-> IF text[i] \in DOMAIN LOWER THEN LOWER[text[i]] ELSE text[i]]

\* template.format(content=...)
format(template, content) == template.pre \o content \o template.post

\* new_content.replace(".", " - mutation.", 1)
replace(text, mutation) ==
    IF \A i \in DOMAIN text : text[i] # "." THEN text
    ELSE LET i == CHOOSE k \in DOMAIN text :
                     text[k] = "." /\ \A j \in 1..(k - 1) : text[j] # "."
         IN SubSeq(text, 1, i - 1) \o <<mutation>> \o SubSeq(text, i, Len(text))

\* The random draws of one bind_gossip: the template, and the extra phrase
\* of SPICY_MUTATIONS ("none": random.random() >= 0.4)
BindDraws ==
    {[template |-> 1, mutation |-> "none"], [template |-> 2, mutation |-> "secretly"]}

\* The draws followed where many agents pass a rumor on
PlainDraws == [template : {1}, mutation : {"none"}]

\* GossipEngine.start_chain: the GossipMessage it stores
GossipMessage(origin_agent_id, content, created_tick) ==
    [origin_agent_id |-> origin_agent_id,
     content |-> content,
     credibility |-> 50,
     spiciness |-> 30,
     mutations |-> 0,
     chain |-> <<>>,
     active |-> TRUE,
     created_tick |-> created_tick]

\* {link["agent_id"] for link in gossip.chain}
chain_agents(g) == {g.chain[i].agent_id : i \in DOMAIN g.chain}

\* a bind that always starts from the text the rumor was started with
current_content_Original(g) == g.content

\* "current_content" of to_dict and of bind_gossip
current_content(g) ==
    IF g.chain # <<>> THEN g.chain[Len(g.chain)].content ELSE g.content

\* a bind that lets credibility and spiciness leave 0..100
bind_gossip_NoClamp(g, a, p, draw) ==
    LET config == GOSSIP_AMPLIFIERS[p]
        formatted == format(TEMPLATES[p][draw.template], lower(current_content(g)))
    IN [g EXCEPT !.chain = Append(@, [agent_id |-> a, personality |-> p,
                                      content |-> formatted]),
                 !.credibility = @ + config.credibility_mod,
                 !.spiciness = @ + config.spiciness_mod,
                 !.mutations = @ + 1]

\* bind_gossip: the agent's personality transforms the rumor
bind_gossip(g, a, p, draw) ==
    LET config == GOSSIP_AMPLIFIERS[p]
        template == TEMPLATES[p][draw.template]
        formatted == format(template, lower(current_content(g)))
        new_credibility == Max(0, Min(100, g.credibility + config.credibility_mod))
        new_spiciness == Max(0, Min(100, g.spiciness + config.spiciness_mod))
        new_content == IF new_spiciness > 70 /\ draw.mutation # "none"
                       THEN replace(formatted, draw.mutation)
                       ELSE formatted
    IN [g EXCEPT !.chain = Append(@, [agent_id |-> a, personality |-> p,
                                      content |-> new_content]),
                 !.credibility = new_credibility,
                 !.spiciness = new_spiciness,
                 !.mutations = @ + 1]

propagate_NoChainCheck(chains, gid, a, p, draw) ==
    IF gid \notin DOMAIN chains \/ ~chains[gid].active
    THEN [ok |-> FALSE, chains |-> chains]
    ELSE [ok |-> TRUE, chains |-> [chains EXCEPT ![gid] = bind_gossip(@, a, p, draw)]]

\* a propagate that lets the rumor come back to the agent who started it
propagate_NoOriginCheck(chains, gid, a, p, draw) ==
    IF gid \notin DOMAIN chains \/ ~chains[gid].active
    THEN [ok |-> FALSE, chains |-> chains]
    ELSE IF a \in chain_agents(chains[gid])
    THEN [ok |-> FALSE, chains |-> chains]
    ELSE [ok |-> TRUE, chains |-> [chains EXCEPT ![gid] = bind_gossip(@, a, p, draw)]]

\* GossipEngine.propagate: whether it returned a gossip (not None), and the
\* active chains after the call
propagate(chains, gid, a, p, draw) ==
    IF gid \notin DOMAIN chains \/ ~chains[gid].active
    THEN [ok |-> FALSE, chains |-> chains]
    ELSE IF a \in chain_agents(chains[gid]) \/ a = chains[gid].origin_agent_id
    THEN [ok |-> FALSE, chains |-> chains]
    ELSE [ok |-> TRUE, chains |-> [chains EXCEPT ![gid] = bind_gossip(@, a, p, draw)]]

\* Building.move_agent to a lobby or common-floor location
MoveAgent(a, destination) ==
    /\ IF a > n_agents \/ destination \notin LOCATIONS
       THEN /\ location' = location
            /\ last' = [op |-> "move", ok |-> FALSE]
       ELSE /\ location' = [location EXCEPT ![a] = destination]
            /\ last' = [op |-> "move", ok |-> TRUE]
    /\ UNCHANGED <<socialVars, duelVars, landlordVars, questVars, logVars, persistVars, loopVars, offerVars, agentVars, partyVars, ledgerVars, politicsVars, gossipVars,
                   economyVars,
                   tick, n_agents, personality>>

\* Building.start_gossip / GossipEngine.start_chain
StartGossip(a, gid, content) ==
    /\ gid \notin DOMAIN active_chains
    /\ \A i \in DOMAIN completed_chains : completed_chains[i].id # gid
    /\ IF a > n_agents
       THEN /\ active_chains' = active_chains
            /\ clout' = clout
            /\ last' = [op |-> "start_gossip", gossip_id |-> gid, content |-> content,
                        ok |-> FALSE]
       ELSE /\ active_chains' = (gid :> GossipMessage(a, content, tick)) @@ active_chains
            /\ clout' = award_clout(clout, a, "start_gossip")
            /\ last' = [op |-> "start_gossip", gossip_id |-> gid, content |-> content,
                        ok |-> TRUE]
    /\ UNCHANGED <<socialVars, duelVars, landlordVars, questVars, logVars, persistVars, loopVars, offerVars, stats, partyVars, ledgerVars, worldVars, politicsVars,
                   economyVars,
                   gossip_heard, completed_chains>>

\* Building.spread_gossip, the clout for the chain length: the originator
\* of a chain of 5 links or more earns gossip_chain_5, of 3 or 4 links
\* gossip_chain_3
chain_clout(cl, g) ==
    IF Len(g.chain) >= 5 THEN award_clout(cl, g.origin_agent_id, "gossip_chain_5")
    ELSE IF Len(g.chain) >= 3 THEN award_clout(cl, g.origin_agent_id, "gossip_chain_3")
    ELSE cl

\* Building.spread_gossip
SpreadGossip(a, gid, target, draw) ==
    /\ IF a > n_agents \/ target > n_agents
       THEN /\ UNCHANGED <<active_chains, gossip_heard, relationships, clout>>
            /\ last' = [op |-> "spread_gossip", gossip_id |-> gid, target |-> target,
                        ok |-> FALSE]
       ELSE LET r == propagate(active_chains, gid, target, personality[target], draw) IN
            /\ active_chains' = r.chains
            /\ gossip_heard' = IF r.ok
                               THEN [gossip_heard EXCEPT ![target] = Append(@, gid)]
                               ELSE gossip_heard
            /\ relationships' =
                   IF r.ok
                   THEN modify_relationship(
                            modify_relationship(relationships, a, target, 5,
                                                "Shared gossip"),
                            target, a, 3, "Heard gossip from them")
                   ELSE relationships
            /\ clout' = IF r.ok THEN chain_clout(clout, r.chains[gid]) ELSE clout
            /\ last' = [op |-> "spread_gossip", gossip_id |-> gid, target |-> target,
                        ok |-> r.ok]
    /\ UNCHANGED <<duel_record, duelVars, landlordVars, questVars, logVars, persistVars, loopVars, offerVars, stats, partyVars, ledgerVars, worldVars, politicsVars,
                   economyVars,
                   completed_chains>>

\* Building.advance_tick, step 2: the agents a chain can reach by itself
nearby(g) ==
    LET last_agent_id == IF g.chain # <<>> THEN g.chain[Len(g.chain)].agent_id
                         ELSE g.origin_agent_id
    IN {a \in 1..n_agents :
          /\ location[a] = location[last_agent_id]
          /\ a # last_agent_id
          /\ a \notin chain_agents(g)
          /\ a # g.origin_agent_id}

\* the chain after step 2 when the draw picks target (0: no spread)
AutoSpread(g, target, draw) ==
    IF target = 0 THEN g ELSE bind_gossip(g, target, personality[target], draw)

\* a rumor that only dies of old age
Dies_OfAgeOnly(g, tick_now) == (tick_now - g.created_tick) > 30

\* "Gossip dies if it's old or has reached many agents"
Dies(g, tick_now) == g.mutations >= 8 \/ (tick_now - g.created_tick) > 30

\* the ids of a set of chains as a list
RECURSIVE IdList(_)
IdList(S) == IF S = {} THEN <<>>
             ELSE LET x == CHOOSE x \in S : TRUE IN <<x>> \o IdList(S \ {x})

(***************************************************************************)
(* landlord.py: decrees and their time-boxed modifiers.  A decree id        *)
(* (uuid4) is the decree's position in Landlord.decrees; a building event  *)
(* is kept by its name and tick.                                            *)
(***************************************************************************)
\* DECREE_TEMPLATES: effect.get("duration", 0) of the template of a trigger
DECREE_TEMPLATES ==
    [high_chaos |-> 0, gossip_overflow |-> 0, floor_3_glitch |-> 0,
     floor_2_fork |-> 0, kitchen_incident |-> 5, basement_activity |-> 3,
     party_excess |-> 0, relationship_drama |-> 3, periodic_wisdom |-> 0,
     elevator_decree |-> 0]

\* what the random draws of one evaluate_tick come to: chaos is
\* "random.random() < 0.4", gossip is "random.random() < 0.3", trigger is
\* the random decree ("none": the draw was 0.08 or more), event is the
\* random building event ("none": the draw was 0.12 or more)
QuietOmens == {[chaos |-> FALSE, gossip |-> FALSE, trigger |-> "none", event |-> "none"]}
LoudOmens ==
    QuietOmens \cup {[chaos |-> TRUE, gossip |-> FALSE, trigger |-> "none", event |-> "none"]}
       \cup [chaos : {FALSE}, gossip : {FALSE},
             trigger : {"kitchen_incident", "basement_activity", "elevator_decree"},
             event : {"none"}]

\* sum(a.stats.get("chaos", 5) for a in building.agents.values())
RECURSIVE total_chaos(_)
total_chaos(n) == IF n = 0 THEN 0 ELSE stats[n].chaos + total_chaos(n - 1)

\* "avg_chaos > 7", avg_chaos being total_chaos / max(len(agents), 1)
ChaosReigns == total_chaos(n_agents) > 7 * Max(n_agents, 1)

\* Landlord._issue_decree
_issue_decree(land, trigger, tick_now) ==
    LET id == Len(land.decrees) + 1
        duration == DECREE_TEMPLATES[trigger]
    IN [decrees |-> Append(land.decrees, [id |-> id, trigger |-> trigger, tick |-> tick_now]),
        active_effects |->
            IF duration > 0
            THEN (id :> [trigger |-> trigger, expires_tick |-> tick_now + duration])
                    @@ land.active_effects
            ELSE land.active_effects]

\* Landlord._trigger_event
_trigger_event(evs, name, tick_now) == Append(evs, [name |-> name, tick |-> tick_now])

\* modifiers that are only dropped once their expiry tick has passed
Expire_Late(effects, tick_now) ==
    [key \in {k \in DOMAIN effects : effects[k].expires_tick >= tick_now} |->
        effects[key]]

\* Landlord.evaluate_tick, "Expire old effects"
Expire(effects, tick_now) ==
    [key \in {k \in DOMAIN effects : ~(effects[k].expires_tick <= tick_now)} |->
        effects[key]]

\* an evaluation whose random decree does not wait for tick 6
evaluate_tick_Hasty(land, tick_now, chaos_reigns, active_gossip, omen) ==
    LET l1 == IF chaos_reigns /\ omen.chaos
              THEN _issue_decree(land, "high_chaos", tick_now) ELSE land
        l2 == IF active_gossip > 4 /\ omen.gossip
              THEN _issue_decree(l1, "gossip_overflow", tick_now) ELSE l1
        l3 == IF tick_now % 25 = 0 /\ tick_now > 0
              THEN _issue_decree(l2, "periodic_wisdom", tick_now) ELSE l2
        l4 == IF omen.trigger # "none"
              THEN _issue_decree(l3, omen.trigger, tick_now) ELSE l3
    IN [decrees |-> l4.decrees,
        active_effects |-> Expire(l4.active_effects, tick_now),
        events |-> IF omen.event # "none" /\ tick_now > 3
                   THEN _trigger_event(land.events, omen.event, tick_now)
                   ELSE land.events]

\* Landlord.evaluate_tick at the tick the building has just moved to
evaluate_tick(land, tick_now, chaos_reigns, active_gossip, omen) ==
    LET l1 == IF chaos_reigns /\ omen.chaos
              THEN _issue_decree(land, "high_chaos", tick_now) ELSE land
        l2 == IF active_gossip > 4 /\ omen.gossip
              THEN _issue_decree(l1, "gossip_overflow", tick_now) ELSE l1
        l3 == IF tick_now % 25 = 0 /\ tick_now > 0
              THEN _issue_decree(l2, "periodic_wisdom", tick_now) ELSE l2
        l4 == IF omen.trigger # "none" /\ tick_now > 5
              THEN _issue_decree(l3, omen.trigger, tick_now) ELSE l3
    IN [decrees |-> l4.decrees,
        active_effects |-> Expire(l4.active_effects, tick_now),
        events |-> IF omen.event # "none" /\ tick_now > 3
                   THEN _trigger_event(land.events, omen.event, tick_now)
                   ELSE land.events]

\* Building.advance_tick: the landlord evaluates (step 1), gossip spreads by
\* itself and dies out (step 2), proposals with enough votes are resolved
\* (step 4), the market is restocked every fifth tick (step 5)
AdvanceTick(draws, omens) ==
    /\ tick' = tick + 1
    /\ \E omen \in omens :
          LET land == evaluate_tick([decrees |-> decrees,
                                     active_effects |-> active_effects,
                                     events |-> events],
                                    tick + 1, ChaosReigns,
                                    Cardinality(DOMAIN active_chains), omen)
          IN /\ decrees' = land.decrees
             /\ active_effects' = land.active_effects
             /\ events' = land.events
    /\ \E picks \in [DOMAIN active_chains -> 0..n_agents],
          rolls \in [DOMAIN active_chains -> draws] :
          /\ \A gid \in DOMAIN active_chains :
                picks[gid] = 0 \/ picks[gid] \in nearby(active_chains[gid])
          /\ LET spread == [gid \in DOMAIN active_chains |->
                               AutoSpread(active_chains[gid], picks[gid], rolls[gid])]
                 dead == {gid \in DOMAIN active_chains : Dies(spread[gid], tick + 1)}
                 deadList == IdList(dead)
             IN /\ active_chains' = [gid \in DOMAIN active_chains \ dead |-> spread[gid]]
                /\ completed_chains' = completed_chains \o
                      [i \in DOMAIN deadList |->
                          [spread[deadList[i]] EXCEPT !.active = FALSE] @@
                          [id |-> deadList[i]]]
                /\ gossip_heard' = [a \in DOMAIN gossip_heard |->
                      gossip_heard[a] \o
                      IdList({gid \in DOMAIN active_chains : picks[gid] = a})]
    /\ proposals' = [pid \in DOMAIN proposals |->
                        resolve_proposal(proposals[pid], n_agents).p]
    /\ IF (tick + 1) % 5 = 0
       THEN /\ market_supply' = restock_market(market_supply, market_prices).supply
            /\ market_prices' = restock_market(market_supply, market_prices).prices
       ELSE UNCHANGED <<market_supply, market_prices>>
    /\ last' = [op |-> "advance_tick", ok |-> TRUE,
                proposal_resolved |->
                    {pid \in DOMAIN proposals :
                        resolve_proposal(proposals[pid], n_agents).resolved}]
    /\ episode' = IF (tick + 1) % 50 = 0
                  THEN IF episode + 1 > 10 THEN 1 ELSE episode + 1
                  ELSE episode
    /\ season' = IF (tick + 1) % 50 = 0 /\ episode + 1 > 10 THEN season + 1 ELSE season
    /\ disk' = IF (tick + 1) % 10 = 0
               THEN auto_save(n_agents, personality, location, func_tokens, faction,
                              duel_record, votes_cast, inventory, clout,
                              tick', season', episode')
               ELSE disk
    /\ UNCHANGED <<socialVars, duelVars, questVars, logVars, loopVars, offerVars, agentVars, partyVars, ledgerVars, n_agents, personality, location,
                   faction, votes_cast, faction_members, faction_leaders,
                   inventory, open_trades, completed_trades,
                   transaction_history, parties, duel_history>>

NextPolitics ==
    \/ Register(MaxAgents, "nerd")
    \/ \E a \in FactionJoiners, f \in FactionInputs : JoinFaction(a, f)
    \/ \E a \in Proposers, pid \in ProposalIds, options \in OptionInputs :
          CreateProposal(a, pid, options)
    \/ \E v \in VoteInputs, pid \in ProposalIds :
          VoteOnProposal(v[1], pid, v[2])
    \/ tick < MaxTick /\ AdvanceTick(PlainDraws, QuietOmens)

PoliticsInit ==
    IdleParty /\ IdleLedger /\ IdleWorld /\ IdlePolitics /\ IdleGossip /\ IdleEconomy /\ IdleSocial /\ IdleDuel /\ IdleLandlord /\ IdleQuests /\ IdleLog /\ IdlePersist /\ IdleLoop /\ IdleAgents /\ IdleOffers
    /\ last = NoCall

SpecPolitics == PoliticsInit /\ [][NextPolitics]_vars

(***************************************************************************)
(* Properties of the politics engine                                       *)
(***************************************************************************)
VoteCount(p) == Cardinality(DOMAIN p.votes)
CeilQuorum(total_agents) == Max(3, (3 * total_agents + 9) \div 10)

\* C5: resolve_proposal changes a proposal's status only when the number of
\* votes cast is at least max(3, ceil(0.3 * totalAgents)); with fewer votes
\* the proposal stays active and unchanged.
C5_QuorumIsCeil ==
    [][\A pid \in DOMAIN proposals :
          (pid \in DOMAIN proposals'
             /\ VoteCount(proposals[pid]) < CeilQuorum(n_agents)
             /\ last'.op = "advance_tick")
          => proposals'[pid] = proposals[pid]]_vars

\* C5 as the code has it: the quorum is max(3, floor(0.3 * totalAgents)).
C5_QuorumIsFloor ==
    [][\A pid \in DOMAIN proposals :
          (pid \in DOMAIN proposals' /\ last'.op = "advance_tick")
          => IF proposals[pid].status = "active"
                /\ VoteCount(proposals[pid]) >= min_votes(n_agents)
             THEN proposals'[pid].status \in {"passed", "failed"}
             ELSE proposals'[pid] = proposals[pid]]_vars

\* a proposal resolved by three votes among eleven agents
C5_Witness ==
    /\ n_agents = 11
    /\ last.op = "advance_tick"
    /\ \E pid \in last.proposal_resolved :
          /\ proposals[pid].status # "active"
          /\ VoteCount(proposals[pid]) = 3

\* C6: once a proposal has left the active status, no vote, resolve_proposal
\* or advance_tick changes its status, its result or its recorded votes.
C6_ResolvedIsFinal ==
    [][\A pid \in DOMAIN proposals :
          proposals[pid].status # "active"
          => /\ pid \in DOMAIN proposals'
             /\ proposals'[pid].status = proposals[pid].status
             /\ proposals'[pid].result = proposals[pid].result
             /\ proposals'[pid].votes = proposals[pid].votes]_vars

\* a vote by an agent who had not voted, cast after the proposal failed
C6_Witness ==
    /\ last.op = "vote"
    /\ ~last.ok
    /\ last.agent <= n_agents
    /\ last.choice = "yes"
    /\ last.proposal \in DOMAIN proposals
    /\ proposals[last.proposal].status = "failed"
    /\ last.agent \notin DOMAIN proposals[last.proposal].votes

\* C7: a second vote by the same agent on the same proposal fails and leaves
\* the recorded choice, the tally and the faction support unchanged; a vote
\* for a choice outside the options, or on a proposal that is not active,
\* fails without change.  A vote that is none of these is recorded once.
C7_OneVotePerAgent ==
    [][(last'.op = "vote" /\ last'.agent <= n_agents
          /\ last'.proposal \in DOMAIN proposals)
       => LET p == proposals[last'.proposal]
              q == proposals'[last'.proposal]
              a == last'.agent
          IN IF \/ a \in DOMAIN p.votes
                \/ last'.choice \notin Range(p.options)
                \/ p.status # "active"
             THEN /\ ~last'.ok
                  /\ proposals' = proposals
                  /\ _tally_votes(q) = _tally_votes(p)
                  /\ votes_cast' = votes_cast
             ELSE /\ last'.ok
                  /\ q.votes = (a :> last'.choice) @@ p.votes
                  /\ VoteCount(q) = VoteCount(p) + 1
                  /\ votes_cast'[a] = votes_cast[a] + 1]_vars

\* an agent in a faction who voted "yes" tries to vote "no" on the still
\* active proposal
C7_Witness ==
    /\ last.op = "vote"
    /\ ~last.ok
    /\ last.choice = "no"
    /\ last.proposal \in DOMAIN proposals
    /\ proposals[last.proposal].status = "active"
    /\ last.agent \in DOMAIN proposals[last.proposal].votes
    /\ proposals[last.proposal].votes[last.agent] = "yes"
    /\ faction[last.agent] # NoFaction

(***************************************************************************)
(* The gossip specification: agents enter, move, start a rumor, pass it    *)
(* on, and the tick spreads it.                                            *)
(***************************************************************************)
\* The agents that register and gossip
Gossipers == {1, 2, 3}

\* The agents that pass the rumor on by spread_gossip
Tellers == {1, 2}

NextGossip ==
    \/ Register(Cardinality(Gossipers), Entrant(n_agents + 1))
    \/ \E a \in Gossipers, destination \in Destinations : MoveAgent(a, destination)
    \/ \E a \in Gossipers, gid \in GossipIds, content \in ContentInputs :
          StartGossip(a, gid, content)
    \/ \E a \in Tellers, gid \in GossipIds, target \in Gossipers, draw \in BindDraws :
          SpreadGossip(a, gid, target, draw)
    \/ tick < MaxTick /\ AdvanceTick(BindDraws, QuietOmens)

GossipInit ==
    IdleParty /\ IdleLedger /\ IdleWorld /\ IdlePolitics /\ IdleGossip /\ IdleEconomy /\ IdleSocial /\ IdleDuel /\ IdleLandlord /\ IdleQuests /\ IdleLog /\ IdlePersist /\ IdleLoop /\ IdleAgents /\ IdleOffers
    /\ last = NoCall

SpecGossip == GossipInit /\ [][NextGossip]_vars

AllChains == {active_chains[gid] : gid \in DOMAIN active_chains}
                \cup Range(completed_chains)

\* C1: in every reachable state every rumor chain's link list contains each
\* agent id at most once and never contains the chain's originator.
C1_LinksUnique ==
    \A g \in AllChains :
        /\ \A i, j \in DOMAIN g.chain :
              g.chain[i].agent_id = g.chain[j].agent_id => i = j
        /\ g.origin_agent_id \notin chain_agents(g)

\* a two-link chain, and a refused attempt to pass the rumor to an agent who
\* is already a link or the originator
C1_Witness ==
    /\ last.op = "spread_gossip"
    /\ ~last.ok
    /\ \E gid \in DOMAIN active_chains :
          LET g == active_chains[gid] IN
          /\ Len(g.chain) = 2
          /\ last.target \in chain_agents(g) \cup {g.origin_agent_id}
          /\ tick > g.created_tick

(***************************************************************************)
(* economy.py, trading.py and world.py: the FUNC ledger under parties,     *)
(* the market, duels with a wager and peer-to-peer trades.                 *)
(***************************************************************************)
MaxTransactions == 3
MaxDuels == 1
MaxParties == 1

Traders == {1, 2}
TradeIds == {"t1"}
NoItem == "none"
Offerings == {[type |-> "item", id |-> "fortune_cookie", amount |-> 0],
              [type |-> "func", id |-> NoItem, amount |-> 90]}
Askings == {[type |-> "func", id |-> NoItem, amount |-> 10],
            [type |-> "func", id |-> NoItem, amount |-> 150]}
Wagers == {50, 150}
VibeInputs == {<<"chill">>, <<"macarena">>}
PartyLocations == {"lobby"}

FUNC_COSTS == [throw_party |-> 20, buy_item |-> 10, bribe_landlord |-> 50,
               talent_show_bet |-> 15, explore_basement |-> 5]

\* spend_func: whether the agent had enough, and the ledger after the call
spend_func(ft, a, action) ==
    LET cost == FUNC_COSTS[action] IN
    IF ft[a] >= cost THEN [ok |-> TRUE, ft |-> [ft EXCEPT ![a] = @ - cost]]
    ELSE [ok |-> FALSE, ft |-> ft]

\* Building.throw_party, "Attendee effects": host and attendee remember the
\* party (the attendees are distinct, so their order does not matter)
RECURSIVE AttendeeEffects(_, _, _)
AttendeeEffects(rels, host, crowd) ==
    IF crowd = {} THEN rels
    ELSE LET a == CHOOSE x \in crowd : TRUE IN
         AttendeeEffects(
             modify_relationship(
                 modify_relationship(rels, host, a, 5, "Attended party together"),
                 a, host, 8, "threw a party"),
             host, crowd \ {a})

\* Building.throw_party, the clout: throw_party for the host, great_party
\* on top when the fun is above 70, party_attendance for every guest
party_clout(cl, host, guests, outcome) ==
    LET thrown == award_clout(cl, host, "throw_party")
        hosted == IF outcome.fun > 70 THEN award_clout(thrown, host, "great_party")
                  ELSE thrown
    IN [a \in DOMAIN cl |-> IF a \in guests
                            THEN hosted[a] + CLOUT_REWARDS.party_attendance
                            ELSE hosted[a]]

\* Building.throw_party: the host pays, then the vibes are validated, then
\* the party runs with the other agents at the location
ThrowParty(host, vs, loc) ==
    /\ Len(parties) < MaxParties
    /\ IF host > n_agents
       THEN /\ UNCHANGED <<func_tokens, parties, relationships, clout>>
            /\ last' = [op |-> "throw_party", ok |-> FALSE]
       ELSE LET r == spend_func(func_tokens, host, "throw_party")
                guests == {b \in 1..n_agents : location[b] = loc /\ b # host}
                crowd == {personality[a] : a \in guests}
                vibe_list == [i \in DOMAIN vs |-> [vibe |-> vs[i], roll |-> 1]]
            IN /\ func_tokens' = r.ft
               /\ IF r.ok /\ \A i \in DOMAIN vs : vs[i] \in Vibe
                  THEN /\ parties' = Append(parties,
                              [host_id |-> host, location |-> loc,
                               state |-> kleisli_compose(vibe_list, crowd)])
                       /\ relationships' = AttendeeEffects(relationships, host, guests)
                       /\ clout' = party_clout(clout, host, guests,
                                               kleisli_compose(vibe_list, crowd))
                       /\ last' = [op |-> "throw_party", ok |-> TRUE]
                  ELSE /\ UNCHANGED <<parties, relationships, clout>>
                       /\ last' = [op |-> "throw_party", ok |-> FALSE]
    /\ UNCHANGED <<duel_record, duelVars, landlordVars, questVars, logVars, persistVars, loopVars, offerVars, stats, partyVars, worldVars, politicsVars, gossipVars,
                   tradingVars,
                   duel_history>>

\* a duel that checks neither side's balance against the wager
duel_refused_NoWagerCheck(challenger, target, wager) ==
    \/ challenger > n_agents \/ target > n_agents
    \/ location[challenger] # location[target]

\* resolve_duel, "Spoils": what the DuelResult reports
spoils(wager_func) ==
    [func_transferred |-> wager_func, clout_earned |-> 15, clout_lost |-> 5]

\* Building.duel: the three early returns
duel_refused(challenger, target, wager) ==
    \/ challenger > n_agents \/ target > n_agents
    \/ location[challenger] # location[target]
    \/ (wager > 0 /\ (func_tokens[challenger] < wager \/ func_tokens[target] < wager))

\* Building.duel / resolve_duel: either side may win the rounds
Duel(challenger, target, wager, winner) ==
    /\ winner \in {challenger, target}
    /\ IF duel_refused(challenger, target, wager)
       THEN /\ UNCHANGED <<func_tokens, duel_history, relationships, duel_record,
                           event_log, clout>>
            /\ last' = [op |-> "duel", challenger |-> challenger, target |-> target,
                        wager |-> wager, ok |-> FALSE]
       ELSE LET loser == IF winner = challenger THEN target ELSE challenger
                paid == IF wager > 0
                        THEN [func_tokens EXCEPT ![loser] = @ - wager]
                        ELSE func_tokens
                won == [duel_record EXCEPT ![winner] =
                            [@ EXCEPT !.wins = @ + 1, !.streak = @ + 1]]
            IN /\ func_tokens' = IF wager > 0
                                 THEN [paid EXCEPT ![winner] = @ + wager]
                                 ELSE func_tokens
               /\ duel_history' = Append(duel_history,
                                         [winner_id |-> winner, loser_id |-> loser,
                                          wager |-> wager, spoils |-> spoils(wager)])
               /\ duel_record' = [won EXCEPT ![loser] =
                                      [@ EXCEPT !.losses = @ + 1, !.streak = 0]]
               /\ clout' = award_clout(clout, winner, "prank_success")
               /\ relationships' =
                      modify_relationship(
                          modify_relationship(relationships, challenger, target, -5,
                                              "Dueled"),
                          target, challenger, -5, "Dueled")
               /\ event_log' = _log_event(event_log, "duel",
                                           [challenger_id |-> challenger,
                                            defender_id |-> target,
                                            winner_id |-> winner, wager |-> wager],
                                           tick)
               /\ last' = [op |-> "duel", challenger |-> challenger, target |-> target,
                           wager |-> wager, ok |-> TRUE]
    /\ UNCHANGED <<duelVars, landlordVars, questVars, persistVars, loopVars, offerVars, stats, partyVars, worldVars,
                   politicsVars, gossipVars, tradingVars, parties>>

\* int(price * 1.3), int(price * 2.0) and int(base_price * 0.6): the float
\* products truncate to these quotients for every price below 400
Times13(price) == (13 * price) \div 10
Times20(price) == 2 * price
Times06(price) == (6 * price) \div 10

\* a purchase that is not refused when the item is out of stock
buy_refused_NoStockCheck(a, item) ==
    \/ a > n_agents
    \/ item \notin MarketItems
    \/ func_tokens[a] < market_prices[item]

\* the early returns of a purchase: agent not found, unknown item, out of
\* stock, not enough FUNC
buy_refused(a, item) ==
    \/ a > n_agents
    \/ item \notin MarketItems
    \/ market_supply[item] <= 0
    \/ func_tokens[a] < market_prices[item]

\* Building.buy_from_market / TradingEngine.buy_from_market
BuyFromMarket(a, item) ==
    /\ IF buy_refused(a, item)
       THEN /\ UNCHANGED <<func_tokens, inventory, market_supply, market_prices,
                           transaction_history>>
            /\ last' = [op |-> "buy_from_market", agent |-> a, item |-> item,
                        ok |-> FALSE]
       ELSE LET price == market_prices[item]
                left == market_supply[item] - 1
            IN /\ func_tokens' = [func_tokens EXCEPT ![a] = @ - price]
               /\ inventory' = [inventory EXCEPT ![a] = Append(@, item)]
               /\ market_supply' = [market_supply EXCEPT ![item] = left]
               /\ market_prices' =
                     IF left <= 2 THEN [market_prices EXCEPT ![item] = Times13(price)]
                     ELSE IF left <= 0 THEN [market_prices EXCEPT ![item] = Times20(price)]
                     ELSE market_prices
               /\ transaction_history' = Append(transaction_history, "market_buy")
               /\ last' = [op |-> "buy_from_market", agent |-> a, item |-> item,
                           ok |-> TRUE]
    /\ UNCHANGED <<socialVars, duelVars, landlordVars, questVars, logVars, persistVars, loopVars, offerVars, agentVars, partyVars, worldVars, politicsVars, gossipVars,
                   open_trades, completed_trades, parties, duel_history>>

\* Building.sell_to_market / TradingEngine.sell_to_market
SellToMarket(a, item) ==
    /\ IF a > n_agents \/ ~Holds(inventory[a], item)
       THEN /\ UNCHANGED <<func_tokens, inventory, market_supply, market_prices,
                           transaction_history>>
            /\ last' = [op |-> "sell_to_market", agent |-> a, item |-> item,
                        ok |-> FALSE]
       ELSE LET sell_price == Max(1, Times06(market_prices[item]))
                stock == market_supply[item] + 1
            IN /\ inventory' = [inventory EXCEPT ![a] = Remove(@, item)]
               /\ func_tokens' = [func_tokens EXCEPT ![a] = @ + sell_price]
               /\ market_supply' = [market_supply EXCEPT ![item] = stock]
               /\ market_prices' =
                     IF stock > 8
                     THEN [market_prices EXCEPT ![item] =
                              Max((7 * MARKET_ITEMS[item].base_price) \div 10, @ - 2)]
                     ELSE market_prices
               /\ transaction_history' = Append(transaction_history, "market_sell")
               /\ last' = [op |-> "sell_to_market", agent |-> a, item |-> item,
                           ok |-> TRUE]
    /\ UNCHANGED <<socialVars, duelVars, landlordVars, questVars, logVars, persistVars, loopVars, offerVars, agentVars, partyVars, worldVars, politicsVars, gossipVars,
                   open_trades, completed_trades, parties, duel_history>>

\* TradingEngine.create_trade: the offering is validated against what the
\* seller holds now
create_trade(trades, tid, seller, ft, inv, offering, asking) ==
    IF offering.type = "func" /\ ft[seller] < offering.amount
    THEN [ok |-> FALSE, trades |-> trades]
    ELSE IF offering.type = "item" /\ ~Holds(inv[seller], offering.id)
    THEN [ok |-> FALSE, trades |-> trades]
    ELSE [ok |-> TRUE,
          trades |-> (tid :> [seller_id |-> seller, offering |-> offering,
                              asking |-> asking, status |-> "open",
                              buyer_id |-> 0]) @@ trades]

\* Building.create_trade
CreateTrade(a, tid, offering, asking) ==
    /\ tid \notin DOMAIN open_trades \cup DOMAIN cancelled_trades
    /\ \A i \in DOMAIN completed_trades : completed_trades[i].id # tid
    /\ IF a > n_agents
       THEN /\ open_trades' = open_trades
            /\ last' = [op |-> "create_trade", ok |-> FALSE]
       ELSE LET r == create_trade(open_trades, tid, a, func_tokens, inventory,
                                  offering, asking)
            IN /\ open_trades' = r.trades
               /\ last' = [op |-> "create_trade", ok |-> r.ok]
    /\ UNCHANGED <<socialVars, duelVars, landlordVars, questVars, logVars, persistVars, loopVars, offerVars, agentVars, partyVars, ledgerVars, worldVars, politicsVars, gossipVars,
                   inventory, market_supply, market_prices, completed_trades,
                   transaction_history, parties, duel_history>>

\* TradingEngine.accept_trade, "Transfer offering (seller -> buyer)"
TransferOffering(t, buyer, ft, inv) ==
    LET seller == t.seller_id IN
    IF t.offering.type = "func"
    THEN [ft |-> [[ft EXCEPT ![seller] = @ - t.offering.amount]
                     EXCEPT ![buyer] = @ + t.offering.amount],
          inv |-> inv]
    ELSE IF t.offering.type = "item" /\ Holds(inv[seller], t.offering.id)
    THEN [ft |-> ft,
          inv |-> [[inv EXCEPT ![seller] = Remove(@, t.offering.id)]
                      EXCEPT ![buyer] = Append(@, t.offering.id)]]
    ELSE [ft |-> ft, inv |-> inv]

\* a payment that is credited to the seller and never debited from the buyer
TransferPayment_Minted(t, buyer, ft) ==
    IF t.asking.type = "func"
    THEN [ft EXCEPT ![t.seller_id] = @ + t.asking.amount]
    ELSE ft

\* TradingEngine.accept_trade, "Transfer payment (buyer -> seller)"
TransferPayment(t, buyer, ft) ==
    IF t.asking.type = "func"
    THEN [[ft EXCEPT ![buyer] = @ - t.asking.amount]
             EXCEPT ![t.seller_id] = @ + t.asking.amount]
    ELSE ft

\* an offer that its own seller can accept
accept_trade_OwnAllowed(trades, tid, buyer, ft, inv) ==
    IF tid \notin DOMAIN trades \/ trades[tid].status # "open"
    THEN [ok |-> FALSE, ft |-> ft, inv |-> inv]
    ELSE IF trades[tid].asking.type = "func" /\ ft[buyer] < trades[tid].asking.amount
    THEN [ok |-> FALSE, ft |-> ft, inv |-> inv]
    ELSE LET o == TransferOffering(trades[tid], buyer, ft, inv)
         IN [ok |-> TRUE, ft |-> TransferPayment(trades[tid], buyer, o.ft), inv |-> o.inv]

\* TradingEngine.accept_trade: whether it succeeded, and the ledger and the
\* inventories after the call
accept_trade(trades, tid, buyer, ft, inv) ==
    IF tid \notin DOMAIN trades \/ trades[tid].status # "open"
    THEN [ok |-> FALSE, ft |-> ft, inv |-> inv]
    ELSE IF trades[tid].seller_id = buyer
    THEN [ok |-> FALSE, ft |-> ft, inv |-> inv]
    ELSE IF trades[tid].asking.type = "func" /\ ft[buyer] < trades[tid].asking.amount
    THEN [ok |-> FALSE, ft |-> ft, inv |-> inv]
    ELSE LET o == TransferOffering(trades[tid], buyer, ft, inv)
         IN [ok |-> TRUE, ft |-> TransferPayment(trades[tid], buyer, o.ft), inv |-> o.inv]

\* Building.accept_trade
AcceptTrade(buyer, tid) ==
    /\ Len(transaction_history) < MaxTransactions
    /\ LET r == IF buyer > n_agents
                THEN [ok |-> FALSE, ft |-> func_tokens, inv |-> inventory]
                ELSE accept_trade(open_trades, tid, buyer, func_tokens, inventory)
       IN /\ func_tokens' = r.ft
          /\ inventory' = r.inv
          /\ IF r.ok
             THEN /\ open_trades' = [t \in DOMAIN open_trades \ {tid} |-> open_trades[t]]
                  /\ completed_trades' = Append(completed_trades,
                        [open_trades[tid] EXCEPT !.status = "accepted",
                                                 !.buyer_id = buyer] @@ [id |-> tid])
                  /\ transaction_history' = Append(transaction_history, "trade")
                  /\ relationships' =
                         modify_relationship(
                             modify_relationship(relationships, buyer,
                                                 open_trades[tid].seller_id, 5,
                                                 "Traded with them"),
                             open_trades[tid].seller_id, buyer, 5, "Traded with them")
             ELSE UNCHANGED <<open_trades, completed_trades, transaction_history,
                              relationships>>
          /\ last' = [op |-> "accept_trade", buyer |-> buyer, trade |-> tid, ok |-> r.ok]
    /\ UNCHANGED <<duel_record, duelVars, landlordVars, questVars, logVars, persistVars, loopVars, offerVars, agentVars, partyVars, worldVars, politicsVars, gossipVars,
                   market_supply, market_prices, parties, duel_history>>

NextEconomy ==
    \/ Register(Cardinality(Traders), Entrant(n_agents + 1))
    \/ \E host \in Traders, vs \in VibeInputs, loc \in PartyLocations :
          ThrowParty(host, vs, loc)
    \/ \E challenger \in Traders, target \in Traders, wager \in Wagers,
          winner \in Traders :
          Len(duel_history) < MaxDuels /\ Duel(challenger, target, wager, winner)
    \/ \E a \in Traders, item \in MarketItems :
          Len(transaction_history) < MaxTransactions /\ BuyFromMarket(a, item)
    \/ \E a \in Traders, item \in MarketItems :
          Len(transaction_history) < MaxTransactions /\ SellToMarket(a, item)
    \/ \E a \in Traders, tid \in TradeIds, offering \in Offerings, asking \in Askings :
          CreateTrade(a, tid, offering, asking)
    \/ \E buyer \in Traders, tid \in TradeIds : AcceptTrade(buyer, tid)

EconomyInit ==
    IdleParty /\ IdleLedger /\ IdleWorld /\ IdlePolitics /\ IdleGossip /\ IdleEconomy /\ IdleSocial /\ IdleDuel /\ IdleLandlord /\ IdleQuests /\ IdleLog /\ IdlePersist /\ IdleLoop /\ IdleAgents /\ IdleOffers
    /\ last = NoCall

SpecEconomy == EconomyInit /\ [][NextEconomy]_vars

(***************************************************************************)
(* Properties of the economy                                               *)
(***************************************************************************)
Count(inv, item) == Cardinality({i \in DOMAIN inv : inv[i] = item})
FuncPart(part) == IF part.type = "func" THEN part.amount ELSE 0
ItemPart(part, item) == IF part.type = "item" /\ part.id = item THEN 1 ELSE 0

\* C3: accepting a trade offer is all-or-nothing: either the buyer receives
\* the whole offering and the seller the whole asked payment, or no balance
\* and no inventory changes and the offer stays open.
C3_AcceptAllOrNothing ==
    [][(last'.op = "accept_trade" /\ last'.buyer <= n_agents
          /\ last'.trade \in DOMAIN open_trades)
       => LET t == open_trades[last'.trade]
              b == last'.buyer
              s == t.seller_id
          IN \/ /\ last'.ok
                /\ b # s
                /\ last'.trade \notin DOMAIN open_trades'
                /\ func_tokens'[b] = func_tokens[b] + FuncPart(t.offering) - FuncPart(t.asking)
                /\ func_tokens'[s] = func_tokens[s] - FuncPart(t.offering) + FuncPart(t.asking)
                /\ \A item \in MarketItems :
                      /\ Count(inventory'[b], item) =
                            Count(inventory[b], item) + ItemPart(t.offering, item)
                      /\ Count(inventory'[s], item) =
                            Count(inventory[s], item) - ItemPart(t.offering, item)
             \/ /\ ~last'.ok
                /\ func_tokens' = func_tokens
                /\ inventory' = inventory
                /\ open_trades' = open_trades]_vars

\* the item offered was sold to the market before the offer was accepted
C3_Witness ==
    /\ last.op = "accept_trade"
    /\ last.ok
    /\ \E i \in DOMAIN completed_trades :
          LET t == completed_trades[i] IN
          /\ t.offering.type = "item"
          /\ ~Holds(inventory[t.buyer_id], t.offering.id)
          /\ func_tokens[t.buyer_id] < StartingFunc

\* C4: in every reachable state every agent's FUNC balance is >= 0.
C4_BalancesNonNegative ==
    \A a \in DOMAIN func_tokens : func_tokens[a] >= 0

\* the seller offered 90 FUNC, spent part of it, and the offer was accepted
C4_Witness ==
    /\ last.op = "accept_trade"
    /\ last.ok
    /\ \E i \in DOMAIN completed_trades :
          /\ completed_trades[i].offering.type = "func"
          /\ func_tokens[completed_trades[i].seller_id] < 0

(***************************************************************************)
(* combat.py: resolve_duel, one round of its loop per step                 *)
(***************************************************************************)
\* stat_boost summed, and only_when_losing, of each personality's ability
\* (chaos_gremlin and conspiracy_theorist compute their bonus at run time)
DUEL_ABILITIES ==
    [social_butterfly    |-> [stat_boost |-> 2, only_when_losing |-> FALSE],
     schemer             |-> [stat_boost |-> 3, only_when_losing |-> FALSE],
     drama_queen         |-> [stat_boost |-> 4, only_when_losing |-> TRUE],
     nerd                |-> [stat_boost |-> 8, only_when_losing |-> FALSE],
     chaos_gremlin       |-> [stat_boost |-> 0, only_when_losing |-> FALSE],
     conspiracy_theorist |-> [stat_boost |-> 0, only_when_losing |-> FALSE]]

combat_stats == {"charisma", "creativity", "drama", "chaos"}

\* range(1, 4)
RoundNumbers == 1..3

\* random.randint(-3, 3): the two ends and the middle
RollDraws == {-3, 0, 3}

\* random.randint(-5, 5) of the Wild Card: the two ends
WildDraws == {-5, 5}

\* The duelists and the crowd sizes followed
Duelists == {"social_butterfly", "drama_queen", "chaos_gremlin"}
NearbyCounts == {2, 3}

\* _check_ability: the bonuses a call can add to the roll; 0 is the call
\* that returns None (the trigger chance missed, or the ability is for the
\* losing side only and the agent is not losing)
_check_ability(p, is_losing) ==
    {0} \cup
    IF DUEL_ABILITIES[p].only_when_losing /\ ~is_losing THEN {}
    ELSE IF p = "chaos_gremlin" THEN WildDraws
    ELSE IF p = "conspiracy_theorist" THEN {2}
    ELSE {DUEL_ABILITIES[p].stat_boost}

\* "Social butterfly bonus from crowd"
CrowdBonus(p, nearby_count) ==
    IF p = "social_butterfly" /\ nearby_count > 2 THEN 1 ELSE 0

\* a round that nobody wins when the rolls are equal
round_winner_Strict(c_roll, d_roll) ==
    IF c_roll > d_roll THEN "challenger"
    ELSE IF d_roll > c_roll THEN "defender" ELSE "nobody"

\* round_winner = "challenger" if c_roll >= d_roll else "defender"
round_winner(c_roll, d_roll) ==
    IF c_roll >= d_roll THEN "challenger" ELSE "defender"

\* resolve_duel is entered: no round yet, both scores 0
InitDuel ==
    \E c \in Duelists, d \in Duelists, n \in NearbyCounts :
        duel = [pc |-> "loop", challenger |-> c, defender |-> d, nearby_count |-> n,
                round_num |-> 1, rounds |-> <<>>, c_roll |-> 0, d_roll |-> 0,
                challenger_score |-> 0, defender_score |-> 0,
                winner_id |-> "none", loser_id |-> "none"]

\* one pass of "for round_num in range(1, 4)", up to its break.  Of the
\* round_data appended to rounds, the round number and the winner are kept;
\* c_roll and d_roll are the rolls of the latest pass.
DuelRound ==
    /\ duel.pc = "loop"
    /\ duel.round_num \in RoundNumbers
    /\ \E stat \in combat_stats, c_rand \in RollDraws, d_rand \in RollDraws :
       \E c_bonus \in _check_ability(duel.challenger,
                                     duel.challenger_score < duel.defender_score),
          d_bonus \in _check_ability(duel.defender,
                                     duel.defender_score < duel.challenger_score) :
         LET c_roll == PERSONALITY_STATS[duel.challenger][stat] + c_rand + c_bonus
                       + CrowdBonus(duel.challenger, duel.nearby_count)
             d_roll == PERSONALITY_STATS[duel.defender][stat] + d_rand + d_bonus
                       + CrowdBonus(duel.defender, duel.nearby_count)
             w == round_winner(c_roll, d_roll)
             cs == duel.challenger_score + (IF w = "challenger" THEN 1 ELSE 0)
             ds == duel.defender_score + (IF w = "defender" THEN 1 ELSE 0)
         IN duel' = [duel EXCEPT
                        !.challenger_score = cs,
                        !.defender_score = ds,
                        !.c_roll = c_roll,
                        !.d_roll = d_roll,
                        !.rounds = Append(@, [round |-> duel.round_num, winner |-> w]),
                        !.round_num = @ + 1,
                        !.pc = IF cs >= 2 \/ ds >= 2 \/ duel.round_num + 1 \notin RoundNumbers
                               THEN "final" ELSE "loop"]
    /\ UNCHANGED <<landlordVars, questVars, logVars, persistVars, loopVars, offerVars, agentVars, partyVars, ledgerVars, worldVars, politicsVars, gossipVars,
                   economyVars, socialVars, last>>

\* "Determine winner", and the return
DuelFinal ==
    /\ duel.pc = "final"
    /\ LET winner == IF duel.challenger_score > duel.defender_score
                     THEN "challenger" ELSE "defender"
       IN duel' = [duel EXCEPT
                      !.winner_id = winner,
                      !.loser_id = IF winner = "challenger" THEN "defender"
                                   ELSE "challenger",
                      !.pc = "done"]
    /\ UNCHANGED <<landlordVars, questVars, logVars, persistVars, loopVars, offerVars, agentVars, partyVars, ledgerVars, worldVars, politicsVars, gossipVars,
                   economyVars, socialVars, last>>

NextDuel == DuelRound \/ DuelFinal

DuelInit ==
    InitDuel /\ IdleParty /\ IdleLedger /\ IdleWorld /\ IdlePolitics /\ IdleGossip
    /\ IdleEconomy /\ IdleSocial /\ IdleLandlord /\ IdleQuests /\ IdleLog /\ IdlePersist /\ IdleLoop /\ IdleAgents /\ IdleOffers /\ last = NoCall

SpecDuel == DuelInit /\ [][NextDuel]_vars

\* rounds of the duel that side w won
RoundsWon(w) ==
    Cardinality({i \in DOMAIN duel.rounds : duel.rounds[i].winner = w})

\* C11: resolve_duel returns after 2 or 3 rounds; every round played has one
\* winner, the challenger or the defender, so the scores add up to the rounds
\* played; the final score is never tied: the winner has won exactly 2
\* rounds and the loser at most 1.
C11_BestOfThree ==
    /\ Len(duel.rounds) <= 3
    /\ \A i \in DOMAIN duel.rounds :
          duel.rounds[i].winner \in {"challenger", "defender"}
    /\ duel.challenger_score = RoundsWon("challenger")
    /\ duel.defender_score = RoundsWon("defender")
    /\ duel.challenger_score + duel.defender_score = Len(duel.rounds)
    /\ duel.pc \in {"final", "done"} =>
          /\ Len(duel.rounds) \in {2, 3}
          /\ duel.challenger_score # duel.defender_score
          /\ Max(duel.challenger_score, duel.defender_score) = 2
          /\ Min(duel.challenger_score, duel.defender_score) <= 1
    /\ duel.pc = "done" =>
          /\ duel.winner_id \in {"challenger", "defender"}
          /\ duel.loser_id \in {"challenger", "defender"} \ {duel.winner_id}
          /\ RoundsWon(duel.winner_id) = 2
          /\ RoundsWon(duel.loser_id) <= 1

\* a duel of three rounds whose last round was decided on equal rolls
C11_Witness ==
    /\ duel.pc = "done"
    /\ Len(duel.rounds) = 3
    /\ duel.c_roll = duel.d_roll
    /\ duel.winner_id = "challenger"

(***************************************************************************)
(* world.py: duels between agents that move about                          *)
(***************************************************************************)
\* Most duels fought in the arena
MaxBouts == 2

\* The wagers asked for: none, one both can pay at first, one they cannot
ArenaWagers == {0} \cup Wagers

NextArena ==
    \/ Register(Cardinality(Traders), Entrant(n_agents + 1))
    \/ \E a \in Traders, destination \in Destinations : MoveAgent(a, destination)
    \/ \E challenger \in Traders, target \in Traders, wager \in ArenaWagers,
          winner \in Traders :
          Len(duel_history) < MaxBouts /\ Duel(challenger, target, wager, winner)

ArenaInit ==
    IdleParty /\ IdleLedger /\ IdleWorld /\ IdlePolitics /\ IdleGossip /\ IdleEconomy
    /\ IdleSocial /\ IdleDuel /\ IdleLandlord /\ IdleQuests /\ IdleLog /\ IdlePersist /\ IdleLoop /\ IdleAgents /\ IdleOffers /\ last = NoCall

SpecArena == ArenaInit /\ [][NextArena]_vars

\* the duel just requested was between two registered agents, with a wager
WageredDuel ==
    /\ last'.op = "duel"
    /\ last'.wager > 0
    /\ last'.challenger \in 1..n_agents
    /\ last'.target \in 1..n_agents
    /\ last'.challenger # last'.target

\* C12: a duel between two agents with a wager w > 0.  If both hold at least
\* w (and stand in the same location), the duel succeeds and the loser's
\* balance falls by exactly w and the winner's rises by exactly w, whoever
\* won; if either holds less than w, or the two are in different locations,
\* the duel fails and no balance, duel record, relationship or duel history
\* changes.
C12_WagerMoves ==
    [][WageredDuel =>
        LET c == last'.challenger
            t == last'.target
            w == last'.wager
        IN IF location[c] = location[t] /\ func_tokens[c] >= w /\ func_tokens[t] >= w
           THEN /\ last'.ok
                /\ Len(duel_history') = Len(duel_history) + 1
                /\ LET r == duel_history'[Len(duel_history')] IN
                   /\ {r.winner_id, r.loser_id} = {c, t}
                   /\ func_tokens'[r.winner_id] = func_tokens[r.winner_id] + w
                   /\ func_tokens'[r.loser_id] = func_tokens[r.loser_id] - w
           ELSE /\ ~last'.ok
                /\ UNCHANGED <<func_tokens, duel_record, relationships, duel_history>>
    ]_vars

\* the challenger has just lost a wager of 50 to the target
C12_Witness ==
    /\ last.op = "duel" /\ last.ok /\ last.wager = 50
    /\ last.challenger = 1 /\ last.target = 2
    /\ duel_history[Len(duel_history)].winner_id = 2
    /\ func_tokens = <<50, 150>>
    /\ duel_record[1].losses = 1 /\ duel_record[2].wins = 1
    /\ relationships[1][2].affinity = -5 /\ relationships[2][1].affinity = -5

\* a wagered duel was refused because the two stand in different locations,
\* after an earlier duel had been fought
C12_RefusedApart ==
    /\ last.op = "duel" /\ ~last.ok /\ last.wager = 50
    /\ last.challenger \in 1..n_agents /\ last.target \in 1..n_agents
    /\ location[last.challenger] # location[last.target]
    /\ Len(duel_history) = 1

(***************************************************************************)
(* trading.py: the market from any of its starting supplies                *)
(***************************************************************************)
\* Most purchases and sales made at the market
MaxDeals == 4

\* random.randint(3, 10), the supply TradingEngine.__init__ draws
SupplyDraws == 3..10

\* The items asked for: the catalog item and one the catalog does not have
ItemInputs == MarketItems \cup {"moon_cheese"}

\* A wager that takes all of a new agent's FUNC
AllIn == StartingFunc

NextMarket ==
    \/ Register(Cardinality(Traders), Entrant(n_agents + 1))
    \/ \E a \in Traders, item \in ItemInputs :
          Len(transaction_history) < MaxDeals /\ BuyFromMarket(a, item)
    \/ \E a \in Traders, item \in ItemInputs :
          Len(transaction_history) < MaxDeals /\ SellToMarket(a, item)
    \/ \E challenger \in Traders, target \in Traders, winner \in Traders :
          /\ Len(duel_history) < MaxDuels
          /\ challenger # target
          /\ Duel(challenger, target, AllIn, winner)

\* TradingEngine.__init__ with its supply drawn
MarketInit ==
    /\ IdleParty /\ IdleLedger /\ IdleWorld /\ IdlePolitics /\ IdleGossip
    /\ IdleSocial /\ IdleDuel /\ IdleLandlord /\ IdleQuests /\ IdleLog /\ IdlePersist /\ IdleLoop /\ IdleAgents /\ IdleOffers
    /\ inventory = <<>>
    /\ \E supply \in SupplyDraws : market_supply = [item \in MarketItems |-> supply]
    /\ market_prices = [item \in MarketItems |-> MARKET_ITEMS[item].base_price]
    /\ open_trades = <<>>
    /\ completed_trades = <<>>
    /\ transaction_history = <<>>
    /\ parties = <<>>
    /\ duel_history = <<>>
    /\ last = NoCall

SpecMarket == MarketInit /\ [][NextMarket]_vars

\* a purchase of a catalog item by a registered agent has just succeeded
Bought == last'.op = "buy_from_market" /\ last'.ok

\* C13: buying the last unit of an item (supply 1 before the purchase)
\* leaves supply 0 and sets the price to twice the price paid (the
\* zero-stock multiplier), more than the x1.3 of the low-water mark.
C13_LastUnitDoubles ==
    [][Bought /\ market_supply[last'.item] = 1 =>
          /\ market_supply'[last'.item] = 0
          /\ market_prices'[last'.item] = Times20(market_prices[last'.item])
          /\ market_prices'[last'.item] > Times13(market_prices[last'.item])
    ]_vars

\* the last unit has just been bought
C13_Witness ==
    /\ last.op = "buy_from_market" /\ last.ok
    /\ market_supply[last.item] = 0
    /\ Len(transaction_history) = 3

\* C14: a purchase fails when the agent or the item is unknown, the item is
\* out of stock or the balance is below the current price, and then the
\* balances, the inventories, the supply and the price are unchanged; a
\* successful purchase debits exactly the current price, adds one unit to
\* the buyer's inventory and lowers the supply by exactly 1.  The supply of
\* every item is >= 0 in every reachable state.
C14_PurchaseContract ==
    /\ [][last'.op = "buy_from_market" =>
            LET a == last'.agent
                item == last'.item
            IN IF /\ a \in 1..n_agents
                  /\ item \in MarketItems
                  /\ market_supply[item] > 0
                  /\ func_tokens[a] >= market_prices[item]
               THEN /\ last'.ok
                    /\ func_tokens' = [func_tokens EXCEPT ![a] = @ - market_prices[item]]
                    /\ inventory' = [inventory EXCEPT ![a] = Append(@, item)]
                    /\ market_supply' = [market_supply EXCEPT ![item] = @ - 1]
               ELSE /\ ~last'.ok
                    /\ UNCHANGED <<func_tokens, inventory, market_supply, market_prices>>
       ]_vars
    /\ [](\A item \in MarketItems : market_supply[item] >= 0)

\* a purchase has just been refused because the item sold out
C14_Witness ==
    /\ last.op = "buy_from_market" /\ ~last.ok
    /\ last.agent \in 1..n_agents
    /\ last.item \in MarketItems
    /\ market_supply[last.item] = 0
    /\ Len(transaction_history) = 3

\* a purchase has just been refused because the agent cannot pay the price
C14_RefusedPoor ==
    /\ last.op = "buy_from_market" /\ ~last.ok
    /\ last.agent \in 1..n_agents
    /\ last.item \in MarketItems
    /\ market_supply[last.item] > 0
    /\ func_tokens[last.agent] < market_prices[last.item]

\* a purchase of an item the catalog does not have has just been refused
C14_RefusedUnknown ==
    /\ last.op = "buy_from_market" /\ ~last.ok
    /\ last.agent \in 1..n_agents
    /\ last.item \notin MarketItems

\* one unit from price towards base, or price itself when it is at base
OneUnitToward(price, base) ==
    IF price < base THEN price + 1 ELSE IF price > base THEN price - 1 ELSE price

\* C15: a sale credits the seller with 60% of the current price (rounded
\* down) and raises the supply by 1; when the sale brings the supply above
\* 8 the price moves by exactly one unit toward the catalog base price,
\* never away from it or past it, and otherwise the price stays.
C15_SaleNudgesPrice ==
    [][last'.op = "sell_to_market" /\ last'.ok =>
          LET a == last'.agent
              item == last'.item
              price == market_prices[item]
          IN /\ func_tokens' = [func_tokens EXCEPT ![a] = @ + Times06(price)]
             /\ market_supply' = [market_supply EXCEPT ![item] = @ + 1]
             /\ market_prices'[item] =
                   IF market_supply'[item] > 8
                   THEN OneUnitToward(price, MARKET_ITEMS[item].base_price)
                   ELSE price
    ]_vars

\* a sale has just brought the supply above 8 and left the price below the
\* catalog base price
C15_Witness ==
    /\ last.op = "sell_to_market" /\ last.ok
    /\ market_supply[last.item] > 8
    /\ market_prices[last.item] < MARKET_ITEMS[last.item].base_price

(***************************************************************************)
(* gossip.py and world.py: a rumor that lives until it is retired.  The    *)
(* agents arrive before the first tick, one at a time, each after the one  *)
(* before has heard the rumor, and all are drama queens.                   *)
(***************************************************************************)
\* Most agents that arrive
MaxCrowd == 9

\* Last tick followed
MaxAge == 32

Crowd == 1..MaxCrowd

\* the agent who starts the rumor and passes it on
Originators == {1}

\* the rumor is going round and every agent but its originator has heard it
AllHaveHeard ==
    /\ DOMAIN active_chains # {}
    /\ \A gid \in DOMAIN active_chains :
          2..n_agents \subseteq chain_agents(active_chains[gid])

NextRumorMill ==
    \/ /\ tick = 0
       /\ n_agents = 0 \/ AllHaveHeard
       /\ Register(MaxCrowd, "drama_queen")
    \/ \E a \in Originators, gid \in GossipIds, content \in ContentInputs :
          StartGossip(a, gid, content)
    \/ \E a \in Originators, gid \in GossipIds, target \in Crowd, draw \in PlainDraws :
          SpreadGossip(a, gid, target, draw)
    \/ tick < MaxAge /\ AdvanceTick(PlainDraws, QuietOmens)

RumorMillInit ==
    IdleParty /\ IdleLedger /\ IdleWorld /\ IdlePolitics /\ IdleGossip /\ IdleEconomy
    /\ IdleSocial /\ IdleDuel /\ IdleLandlord /\ IdleQuests /\ IdleLog /\ IdlePersist /\ IdleLoop /\ IdleAgents /\ IdleOffers /\ last = NoCall

SpecRumorMill == RumorMillInit /\ [][NextRumorMill]_vars

\* the ids of the retired chains
Retired == {completed_chains[i].id : i \in DOMAIN completed_chains}

\* C16: spread_gossip to a registered target fails, and leaves the chains
\* (links, credibility, spiciness, mutation count), every heard-list and
\* every relationship unchanged, whenever the chain id is unknown, the chain
\* is retired, the target started the chain or the target already has a
\* link in it.
C16_RefusedSpreadChangesNothing ==
    [][(/\ last'.op = "spread_gossip"
        /\ last'.target \in 1..n_agents
        /\ LET gid == last'.gossip_id
               a == last'.target
           IN \/ gid \notin DOMAIN active_chains
              \/ ~active_chains[gid].active
              \/ a = active_chains[gid].origin_agent_id
              \/ a \in chain_agents(active_chains[gid]))
       => /\ ~last'.ok
          /\ UNCHANGED <<active_chains, completed_chains, gossip_heard, relationships>>
    ]_vars

\* a spread of a retired rumor has just been refused
C16_Witness ==
    /\ last.op = "spread_gossip" /\ ~last.ok
    /\ last.gossip_id \in Retired
    /\ last.target \in 2..n_agents

\* a spread back to the originator has just been refused, the rumor having
\* three links
C16_RefusedOrigin ==
    /\ last.op = "spread_gossip" /\ ~last.ok
    /\ last.gossip_id \in DOMAIN active_chains
    /\ last.target = active_chains[last.gossip_id].origin_agent_id
    /\ Len(active_chains[last.gossip_id].chain) = 3

\* C19: when advance_tick finishes, no active chain has 8 or more mutations
\* or is older than 30 ticks; a retired chain is flagged inactive, is in
\* the completed list only and is never written again: it does not become
\* active and a propagation of it is refused.
C19_Retirement ==
    /\ [][last'.op = "advance_tick" =>
             \A gid \in DOMAIN active_chains' :
                /\ active_chains'[gid].mutations < 8
                /\ tick' - active_chains'[gid].created_tick <= 30]_vars
    /\ [](/\ \A i \in DOMAIN completed_chains : ~completed_chains[i].active
          /\ \A gid \in DOMAIN active_chains : active_chains[gid].active
          /\ Retired \cap DOMAIN active_chains = {})
    /\ [][/\ Len(completed_chains') >= Len(completed_chains)
          /\ \A i \in DOMAIN completed_chains :
                completed_chains'[i] = completed_chains[i]
          /\ (last'.op = "spread_gossip" /\ last'.gossip_id \in Retired) => ~last'.ok
       ]_vars

\* a rumor that reached 8 agents between two ticks has been retired
C19_Witness ==
    /\ last.op = "advance_tick"
    /\ \E i \in DOMAIN completed_chains :
          /\ completed_chains[i].mutations >= 8
          /\ tick - completed_chains[i].created_tick <= 30

\* a rumor has been retired for its age
C19_RetiredOld ==
    /\ last.op = "advance_tick"
    /\ \E i \in DOMAIN completed_chains :
          /\ completed_chains[i].mutations < 8
          /\ tick - completed_chains[i].created_tick = 31

(***************************************************************************)
(* Properties of the text and the counters of a rumor                      *)
(***************************************************************************)
\* the text of the last link of g, or the text g was started with
LastText(g) ==
    IF Len(g.chain) = 0 THEN g.content ELSE g.chain[Len(g.chain)].content

\* the texts a bind by an agent of personality p can make of text when the
\* spiciness after the bind is spice
Renderings(text, p, spice) ==
    LET plain == {format(TEMPLATES[p][t], lower(text)) : t \in DOMAIN TEMPLATES[p]}
    IN plain \cup (IF spice > 70 THEN {replace(x, "secretly") : x \in plain} ELSE {})

\* C17: every successful propagation (by spread_gossip or by the tick)
\* appends exactly one link, whose text is a rendering of the text of the
\* then-last link, or of the original text when the chain had no link, and
\* never of the original text once a link exists; after the first
\* propagation the chain has length 1 and its current text differs from
\* the original text.
C17_RendersLastLink ==
    [][/\ (last'.op = "spread_gossip" /\ last'.ok) =>
             /\ last'.gossip_id \in DOMAIN active_chains \cap DOMAIN active_chains'
             /\ Len(active_chains'[last'.gossip_id].chain) =
                   Len(active_chains[last'.gossip_id].chain) + 1
       /\ \A gid \in DOMAIN active_chains \cap DOMAIN active_chains' :
             LET g == active_chains[gid]
                 h == active_chains'[gid]
                 link == h.chain[Len(h.chain)]
             IN h.chain # g.chain =>
                   /\ Len(h.chain) = Len(g.chain) + 1
                   /\ SubSeq(h.chain, 1, Len(g.chain)) = g.chain
                   /\ link.content \in Renderings(LastText(g), link.personality, h.spiciness)
                   /\ g.chain # <<>> =>
                         link.content \notin
                            Renderings(g.content, link.personality, h.spiciness)
                   /\ g.chain = <<>> => Len(h.chain) = 1 /\ LastText(h) # h.content
    ]_vars

\* a second link has just been appended, with the extra phrase of a spicy
\* rumor in its text
C17_Witness ==
    /\ last.op = "spread_gossip" /\ last.ok
    /\ last.gossip_id \in DOMAIN active_chains
    /\ LET g == active_chains[last.gossip_id] IN
          /\ Len(g.chain) = 2
          /\ g.spiciness > 70
          /\ \E i \in DOMAIN LastText(g) : LastText(g)[i] = "secretly"

\* C18: every chain, active or completed, has credibility and spiciness in
\* 0..100 and as many mutations as links; the text a chain is started with
\* is the one given to start_gossip, and no step changes it.
C18_ChainCounters ==
    /\ [](\A g \in AllChains :
             /\ g.credibility \in 0..100
             /\ g.spiciness \in 0..100
             /\ g.mutations = Len(g.chain))
    /\ [][/\ (last'.op = "start_gossip" /\ last'.ok) =>
                /\ last'.gossip_id \in DOMAIN active_chains'
                /\ active_chains'[last'.gossip_id].content = last'.content
          /\ \A gid \in DOMAIN active_chains :
                IF gid \in DOMAIN active_chains'
                THEN active_chains'[gid].content = active_chains[gid].content
                ELSE \E i \in DOMAIN completed_chains' :
                        /\ completed_chains'[i].id = gid
                        /\ completed_chains'[i].content = active_chains[gid].content
          /\ \A i \in DOMAIN completed_chains :
                completed_chains'[i].content = completed_chains[i].content
       ]_vars

\* a rumor whose credibility was held at 0 and whose spiciness at 100
C18_Witness ==
    \E g \in AllChains :
       /\ g.credibility = 0
       /\ g.spiciness = 100
       /\ Len(g.chain) = 4
       /\ g.mutations = 4

(***************************************************************************)
(* politics.py and world.py: factions joined, left and joined again        *)
(***************************************************************************)
\* The agents that join factions, and the factions they ask for
Partisans == {1, 2}
FactionChoices == {"purists", "chaoticians", "landlords"}

NextFactions ==
    \/ Register(Cardinality(Partisans), "nerd")
    \/ \E a \in Partisans, f \in FactionChoices : JoinFaction(a, f)

FactionsInit ==
    IdleParty /\ IdleLedger /\ IdleWorld /\ IdlePolitics /\ IdleGossip /\ IdleEconomy
    /\ IdleSocial /\ IdleDuel /\ IdleLandlord /\ IdleQuests /\ IdleLog /\ IdlePersist /\ IdleLoop /\ IdleAgents /\ IdleOffers
    /\ last = NoCall

SpecFactions == FactionsInit /\ [][NextFactions]_vars

\* how often agent a is on the rosters, all factions taken together
OnRosters(a) ==
    Cardinality({<<f, i>> \in Factions \X (1..n_agents) :
                    i \in DOMAIN faction_members[f] /\ faction_members[f][i] = a})

\* C20: whatever factions the agents have joined, and joined again, every
\* agent is on at most one roster and at most once on it, and that roster
\* is the one of the faction its faction field names.
C20_OneRosterPerAgent ==
    \A a \in 1..n_agents :
       /\ OnRosters(a) <= 1
       /\ \A f \in Factions :
             Holds(faction_members[f], a) => faction[a] = f

\* agent 1 has just joined again the faction it was in, after agent 2 had
\* joined it too
C20_Witness ==
    /\ last.op = "join_faction" /\ last.ok
    /\ last.agent = 1 /\ last.faction = "purists"
    /\ faction_members["purists"] = <<2, 1>>
    /\ faction_members["chaoticians"] = <<>>
    /\ "chaoticians" \in DOMAIN faction_leaders

\* C21: once a faction has a recorded leader, no later call changes it: the
\* leader stays the first agent that ever joined the faction (the first join
\* finds the roster empty and records the joiner), whoever leaves or joins
\* afterwards.
C21_LeaderIsFirstJoiner ==
    [][\A f \in DOMAIN faction_leaders :
          /\ f \in DOMAIN faction_leaders'
          /\ faction_leaders'[f] = faction_leaders[f]]_vars

\* agent 1 was the first to join the purists and has left for another
\* faction; agent 2 has just joined the purists, whose roster was empty again
C21_Witness ==
    /\ last.op = "join_faction" /\ last.ok
    /\ last.agent = 2 /\ last.faction = "purists"
    /\ faction_members["purists"] = <<2>>
    /\ faction_members["chaoticians"] = <<1>>
    /\ faction_leaders["chaoticians"] = 1
    /\ faction_leaders["purists"] = 2

(***************************************************************************)
(* Resolution of a proposal                                                *)
(***************************************************************************)
\* the number of recorded votes of proposal p for option opt
VotesFor(p, opt) == Cardinality({a \in DOMAIN p.votes : p.votes[a] = opt})

\* C22: a proposal that leaves the active status gets as its result an
\* option with the largest number of votes, the first such option of its
\* option list; its status is failed when that option is "no" and passed
\* otherwise.
C22_FirstOfTheMostVoted ==
    [][\A pid \in DOMAIN proposals :
          (pid \in DOMAIN proposals'
             /\ proposals[pid].status = "active"
             /\ proposals'[pid].status # "active")
          => LET q == proposals'[pid] IN
             /\ q.votes = proposals[pid].votes
             /\ \E i \in 1..Len(q.options) :
                   /\ q.result = q.options[i]
                   /\ \A j \in 1..Len(q.options) :
                         VotesFor(q, q.options[j]) <= VotesFor(q, q.result)
                   /\ \A j \in 1..(i - 1) :
                         VotesFor(q, q.options[j]) < VotesFor(q, q.result)
             /\ q.status = IF q.result = "no" THEN "failed" ELSE "passed"]_vars

\* a proposal with the options "no", "yes" resolved on two votes each: "no"
\* comes first, and the proposal has failed
C22_Witness ==
    /\ last.op = "advance_tick"
    /\ \E pid \in last.proposal_resolved :
          /\ proposals[pid].options = <<"no", "yes">>
          /\ VotesFor(proposals[pid], "yes") = 2
          /\ VotesFor(proposals[pid], "no") = 2
          /\ proposals[pid].result = "no"
          /\ proposals[pid].status = "failed"

\* the same votes on the options "yes", "no": "yes" comes first
C22_TiePasses ==
    /\ last.op = "advance_tick"
    /\ \E pid \in last.proposal_resolved :
          /\ proposals[pid].options = <<"yes", "no">>
          /\ VotesFor(proposals[pid], "yes") = 2
          /\ VotesFor(proposals[pid], "no") = 2
          /\ proposals[pid].result = "yes"
          /\ proposals[pid].status = "passed"

(***************************************************************************)
(* The landlord specification: ticks pass, and the landlord issues decrees *)
(* with and without a duration.                                            *)
(***************************************************************************)
MaxDecrees == 3
MaxReign == 14

NextLandlord ==
    \/ Register(1, "chaos_gremlin")
    \/ /\ tick < MaxReign
       /\ AdvanceTick(PlainDraws,
                      IF Len(decrees) < MaxDecrees THEN LoudOmens ELSE QuietOmens)

LandlordInit ==
    IdleParty /\ IdleLedger /\ IdleWorld /\ IdlePolitics /\ IdleGossip /\ IdleEconomy
    /\ IdleSocial /\ IdleDuel /\ IdleLandlord /\ IdleQuests /\ IdleLog /\ IdlePersist /\ IdleLoop /\ IdleAgents /\ IdleOffers /\ last = NoCall

SpecLandlord == LandlordInit /\ [][NextLandlord]_vars

\* C23: a decree with a duration d > 0 issued at tick t has one modifier,
\* under its own id and with the expiry tick t + d, after the evaluation of
\* the ticks t .. t + d - 1, and none from the evaluation of tick t + d on;
\* a decree without a duration has no modifier; and no modifier is left whose
\* expiry tick is the current tick or an earlier one.
C23_ModifierLifetime ==
    /\ \A i \in 1..Len(decrees) :
          LET dec == decrees[i]
              d == DECREE_TEMPLATES[dec.trigger]
          IN IF d > 0
             THEN /\ dec.id \in DOMAIN active_effects <=> tick < dec.tick + d
                  /\ dec.id \in DOMAIN active_effects
                        => active_effects[dec.id].expires_tick = dec.tick + d
             ELSE dec.id \notin DOMAIN active_effects
    /\ \A key \in DOMAIN active_effects :
          /\ active_effects[key].expires_tick > tick
          /\ Cardinality({i \in 1..Len(decrees) : decrees[i].id = key}) = 1

\* the kitchen decree of tick 6 (five ticks) has just lost its modifier at
\* tick 11, the basement decree of tick 9 (three ticks) still has its own,
\* and a decree without a duration was issued in between
C23_Witness ==
    /\ last.op = "advance_tick"
    /\ tick = 11
    /\ Len(decrees) = 3
    /\ decrees[1].trigger = "kitchen_incident" /\ decrees[1].tick = 6
    /\ decrees[2].trigger = "high_chaos"
    /\ decrees[3].trigger = "basement_activity" /\ decrees[3].tick = 9
    /\ DOMAIN active_effects = {3}
    /\ active_effects[3].expires_tick = 12

(***************************************************************************)
(* exploration.py: accepting a quest and advancing it                      *)
(***************************************************************************)
\* "action in required" on strings: the words of action occur in required,
\* one after the other (the empty string occurs in every string)
Occurs(action, required) ==
    \E k \in 0..(Len(required) - Len(action)) :
       \A i \in 1..Len(action) : required[k + i] = action[i]

\* an acceptance that takes the quest whatever its status
accept_quest_Again(qs, a, quest_id) ==
    IF quest_id \notin DOMAIN qs
    THEN [ok |-> FALSE, qs |-> qs]
    ELSE [ok |-> TRUE,
          qs |-> [qs EXCEPT ![quest_id].assigned_to = a,
                            ![quest_id].status = "active"]]

\* ExplorationEngine.accept_quest: the success flag and the quests after it
accept_quest(qs, a, quest_id) ==
    IF quest_id \notin DOMAIN qs \/ qs[quest_id].status # "available"
    THEN [ok |-> FALSE, qs |-> qs]
    ELSE [ok |-> TRUE,
          qs |-> [qs EXCEPT ![quest_id].assigned_to = a,
                            ![quest_id].status = "active"]]

\* Building.accept_quest
AcceptQuest(a, quest_id) ==
    /\ IF a > n_agents
       THEN /\ UNCHANGED <<available_quests, quests, active_quests>>
            /\ last' = [op |-> "accept_quest", agent |-> a, quest |-> quest_id,
                        ok |-> FALSE]
       ELSE LET r == accept_quest(available_quests, a, quest_id) IN
            /\ available_quests' = r.qs
            /\ quests' = IF r.ok THEN quests \cup {quest_id} ELSE quests
            /\ active_quests' = IF r.ok
                                THEN [active_quests EXCEPT ![a] = Append(@, quest_id)]
                                ELSE active_quests
            /\ last' = [op |-> "accept_quest", agent |-> a, quest |-> quest_id,
                        ok |-> r.ok]
    /\ UNCHANGED <<socialVars, duelVars, landlordVars, logVars, persistVars, loopVars, offerVars, agentVars, partyVars, ledgerVars,
                   worldVars, politicsVars, gossipVars, economyVars>>

\* an advance that moves the pointer on and leaves the step unmarked
advance_quest_Unmarked(q, action) ==
    LET current_step == q.steps[q.current_step + 1]
    IN IF Occurs(action, current_step.action_required)
       THEN [ok |-> TRUE,
             q |-> [q EXCEPT !.current_step = @ + 1,
                             !.status = IF q.current_step + 1 >= Len(q.steps)
                                        THEN "completed" ELSE @]]
       ELSE [ok |-> FALSE, q |-> q]

\* ExplorationEngine.advance_quest on an accepted quest q of the agent
advance_quest(q, action) ==
    LET current_step == q.steps[q.current_step + 1]
    IN IF Occurs(action, current_step.action_required)
       THEN [ok |-> TRUE,
             q |-> [q EXCEPT !.steps[q.current_step + 1].completed = TRUE,
                             !.current_step = @ + 1,
                             !.status = IF q.current_step + 1 >= Len(q.steps)
                                        THEN "completed" ELSE @]]
       ELSE [ok |-> FALSE, q |-> q]

\* ExplorationEngine.advance_quest (the rewards are returned, not paid)
AdvanceQuest(a, quest_id, action) ==
    /\ a <= n_agents
    /\ IF \/ quest_id \notin quests
          \/ available_quests[quest_id].assigned_to # a
          \/ available_quests[quest_id].status # "active"
       THEN /\ UNCHANGED available_quests
            /\ last' = [op |-> "advance_quest", agent |-> a, quest |-> quest_id,
                        action |-> action, ok |-> FALSE]
       ELSE LET r == advance_quest(available_quests[quest_id], action) IN
            /\ available_quests' = [available_quests EXCEPT ![quest_id] = r.q]
            /\ last' = [op |-> "advance_quest", agent |-> a, quest |-> quest_id,
                        action |-> action, ok |-> r.ok]
    /\ UNCHANGED <<socialVars, duelVars, landlordVars, logVars, persistVars, loopVars, offerVars, agentVars, partyVars, ledgerVars,
                   worldVars, politicsVars, gossipVars, economyVars, quests, active_quests>>

(***************************************************************************)
(* The quest specification: two agents accept quests and report actions.   *)
(***************************************************************************)
Questers == {1, 2}
\* the quests asked for: The Basement Mystery, The Duel Master, and an id
\* that no quest has
QuestInputs == {1, 7, 9}
ActionInputs ==
    {<<"move", "to", "basement">>, <<"explore">>, <<"talk", "about", "basement">>,
     <<"basement">>, <<>>, <<"duel", "win", "1">>, <<"throw", "party">>}

NextQuests ==
    \/ Register(Cardinality(Questers), "nerd")
    \/ \E a \in Questers, q \in QuestInputs : AcceptQuest(a, q)
    \/ \E a \in Questers, q \in QuestInputs, action \in ActionInputs :
          AdvanceQuest(a, q, action)

QuestsInit ==
    IdleParty /\ IdleLedger /\ IdleWorld /\ IdlePolitics /\ IdleGossip /\ IdleEconomy
    /\ IdleSocial /\ IdleDuel /\ IdleLandlord /\ IdleQuests /\ IdleLog /\ IdlePersist /\ IdleLoop /\ IdleAgents /\ IdleOffers /\ last = NoCall

SpecQuests == QuestsInit /\ [][NextQuests]_vars

\* how far a quest has come
Stage(status) ==
    CASE status = "available" -> 0
      [] status = "active" -> 1
      [] status = "completed" -> 2
      [] OTHER -> 3

\* C24: accept_quest succeeds exactly on a quest whose status is available,
\* and then sets the assignee and makes the quest active; any other
\* accept_quest fails and changes no quest.  An assignee, once set, is never
\* changed, and a quest's status only moves forward, from available to
\* active to completed.
C24_OneAssignee ==
    /\ [][(last'.op = "accept_quest" /\ last'.agent <= n_agents)
           => IF /\ last'.quest \in DOMAIN available_quests
                 /\ available_quests[last'.quest].status = "available"
              THEN /\ last'.ok
                   /\ available_quests'[last'.quest].assigned_to = last'.agent
                   /\ available_quests'[last'.quest].status = "active"
              ELSE /\ ~last'.ok
                   /\ available_quests' = available_quests]_vars
    /\ [][\A q \in DOMAIN available_quests :
             /\ available_quests[q].assigned_to # Nobody
                   => available_quests'[q].assigned_to = available_quests[q].assigned_to
             /\ Stage(available_quests'[q].status) >= Stage(available_quests[q].status)
             /\ Stage(available_quests'[q].status) <= Stage(available_quests[q].status) + 1
             /\ available_quests'[q].status \in {"available", "active", "completed"}]_vars
    /\ [](\A q \in DOMAIN available_quests :
             available_quests[q].status = "available"
                <=> available_quests[q].assigned_to = Nobody)

\* agent 2 asks for the quest that agent 1 has accepted and completed
C24_Witness ==
    /\ last.op = "accept_quest" /\ ~last.ok
    /\ last.agent = 2 /\ last.quest = 1
    /\ available_quests[1].assigned_to = 1
    /\ available_quests[1].status = "completed"
    /\ active_quests = << <<1>>, <<>> >>

\* agent 1 asks again for the quest it is on
C24_RefusedOwn ==
    /\ last.op = "accept_quest" /\ ~last.ok
    /\ last.agent = 1 /\ last.quest = 1
    /\ available_quests[1].assigned_to = 1
    /\ available_quests[1].status = "active"

\* C25: advance_quest, called by the assignee of an active quest, completes
\* the current step and moves the pointer on when the action tag is the
\* step's required tag; with any other action tag it fails and leaves the
\* quest's steps, pointer and status as they were.
C25_OnlyTheRequiredTag ==
    [][(/\ last'.op = "advance_quest"
        /\ last'.quest \in quests
        /\ available_quests[last'.quest].assigned_to = last'.agent
        /\ available_quests[last'.quest].status = "active")
       => LET q == available_quests[last'.quest]
              r == available_quests'[last'.quest]
          IN IF last'.action = q.steps[q.current_step + 1].action_required
             THEN /\ last'.ok
                  /\ r.steps[q.current_step + 1].completed
                  /\ r.current_step = q.current_step + 1
             ELSE /\ ~last'.ok
                  /\ r = q]_vars

\* the first step of The Basement Mystery, which asks for move_to_basement,
\* has been completed by the action tag "basement"
C25_Witness ==
    /\ last.op = "advance_quest" /\ last.ok
    /\ last.quest = 1 /\ last.action = <<"basement">>
    /\ available_quests[1].current_step = 1
    /\ available_quests[1].steps[1].completed
    /\ available_quests[1].status = "active"

\* the steps of a quest that are marked completed
CompletedSteps(q) == {i \in DOMAIN q.steps : q.steps[i].completed}

\* C38: in every quest the step pointer is the number of completed steps,
\* the completed steps are exactly the steps before the pointer, and the
\* status is completed exactly when the pointer is the number of steps; a
\* step of the program moves a pointer by one at most and never unmarks a
\* step; advance_quest by an agent who is not the assignee, or on a quest
\* that is not active, fails and changes no quest.
C38_PointerCountsSteps ==
    /\ [](\A id \in DOMAIN available_quests :
             LET q == available_quests[id]
             IN /\ q.current_step \in 0..Len(q.steps)
                /\ q.current_step = Cardinality(CompletedSteps(q))
                /\ CompletedSteps(q) = 1..q.current_step
                /\ q.status = "completed" <=> q.current_step = Len(q.steps))
    /\ [][\A id \in DOMAIN available_quests :
             LET q == available_quests[id]
                 r == available_quests'[id]
             IN /\ r.current_step \in {q.current_step, q.current_step + 1}
                /\ CompletedSteps(q) \subseteq CompletedSteps(r)]_vars
    /\ [][(/\ last'.op = "advance_quest"
           /\ \/ last'.quest \notin quests
              \/ available_quests[last'.quest].assigned_to # last'.agent
              \/ available_quests[last'.quest].status # "active")
          => ~last'.ok /\ available_quests' = available_quests]_vars

\* The Basement Mystery has been completed step by step, and its assignee
\* has just tried to advance it once more
C38_Witness ==
    /\ last.op = "advance_quest" /\ ~last.ok
    /\ last.agent = 1 /\ last.quest = 1 /\ last.action = <<"explore">>
    /\ available_quests[1].assigned_to = 1
    /\ available_quests[1].status = "completed"
    /\ available_quests[1].current_step = 3
    /\ CompletedSteps(available_quests[1]) = {1, 2, 3}

(***************************************************************************)
(* The restock specification: an agent deals at the market while it is     *)
(* open, and the ticks go on after it has closed.  The auto-tick loop      *)
(* never stops, so a tick that can be taken is taken in the end.           *)
(***************************************************************************)
MaxSales == 3
\* deals are made before this tick
MarketClose == 6
\* the ticks followed
MaxWait == 50

RestockTick == tick < MaxWait /\ AdvanceTick(PlainDraws, QuietOmens)

NextRestock ==
    \/ Register(1, "nerd")
    \/ \E a \in {1}, item \in MarketItems :
          /\ tick < MarketClose /\ Len(transaction_history) < MaxSales
          /\ BuyFromMarket(a, item)
    \/ \E a \in {1}, item \in MarketItems :
          /\ tick < MarketClose /\ Len(transaction_history) < MaxSales
          /\ SellToMarket(a, item)
    \/ RestockTick

SpecRestock == MarketInit /\ [][NextRestock]_vars /\ WF_vars(RestockTick)

\* one unit from price p toward the base price
TowardBase(p, base) == IF p < base THEN p + 1 ELSE IF p > base THEN p - 1 ELSE p

\* every supply is at least 3 and every price is the base price
Settled ==
    \A item \in MarketItems :
       /\ market_supply[item] >= 3
       /\ market_prices[item] = MARKET_ITEMS[item].base_price

\* C26: a tick whose number is divisible by 5 adds one unit to every supply
\* below 3, leaves the other supplies, and moves every price one unit toward
\* its base price; any other tick leaves supplies and prices alone.  Once the
\* deals have stopped, the ticks bring every supply to at least 3 and every
\* price to its base price, for good.
C26_RestockSettles ==
    /\ [][last'.op = "advance_tick"
           => \A item \in MarketItems :
                 IF tick' % 5 = 0
                 THEN /\ market_supply'[item] =
                            IF market_supply[item] < 3 THEN market_supply[item] + 1
                            ELSE market_supply[item]
                      /\ market_prices'[item] =
                            TowardBase(market_prices[item], MARKET_ITEMS[item].base_price)
                 ELSE /\ market_supply'[item] = market_supply[item]
                      /\ market_prices'[item] = market_prices[item]]_vars
    /\ <>[]Settled

\* the tenth tick has restocked an emptied, dear market for the second time
C26_Witness ==
    /\ last.op = "advance_tick"
    /\ tick = 10
    /\ market_supply["fortune_cookie"] = 2
    /\ market_prices["fortune_cookie"] = 7

(***************************************************************************)
(* world.py: agent_talk                                                    *)
(***************************************************************************)
\* message[:n] on a message held as a list of characters
Truncated(message, n) == SubSeq(message, 1, Min(n, Len(message)))

\* the loop of the room talk: every other agent of the room is talked to once
RECURSIVE RoomTalk(_, _, _, _)
RoomTalk(rels, a, others, event) ==
    IF others = {} THEN rels
    ELSE LET other == CHOOSE o \in others : \A p \in others : o <= p
         IN RoomTalk(modify_relationship(rels, a, other, 1, event),
                     a, others \ {other}, event)

\* Building.agent_talk: a talk to a target of the same room moves both
\* relationships by 3; a talk to the room (no target) moves the talker's
\* relationship to every other agent of the room by 1; both are logged.
AgentTalk(a, message, target_id) ==
    /\ IF a > n_agents
       THEN /\ UNCHANGED <<relationships, event_log>>
            /\ last' = [op |-> "talk", agent |-> a, target |-> target_id, ok |-> FALSE,
                        error |-> "Agent not found"]
       ELSE IF target_id # Nobody
       THEN IF target_id > n_agents \/ location[target_id] # location[a]
            THEN /\ UNCHANGED <<relationships, event_log>>
                 /\ last' = [op |-> "talk", agent |-> a, target |-> target_id,
                             ok |-> FALSE, error |-> "Target not here"]
            ELSE /\ relationships' =
                        modify_relationship(
                            modify_relationship(relationships, a, target_id, 3,
                                                <<"Talked", Truncated(message, 50)>>),
                            target_id, a, 3, <<"Was told", Truncated(message, 50)>>)
                 /\ event_log' = _log_event(event_log, "talk_private",
                                            [agent_id |-> a, target_id |-> target_id,
                                             message |-> message,
                                             location |-> location[a]], tick)
                 /\ last' = [op |-> "talk", agent |-> a, target |-> target_id,
                             ok |-> TRUE]
       ELSE /\ relationships' =
                   RoomTalk(relationships, a,
                            {o \in 1..n_agents : o # a /\ location[o] = location[a]},
                            <<"Room talk", Truncated(message, 30)>>)
            /\ event_log' = _log_event(event_log, "talk_room",
                                       [agent_id |-> a, message |-> message,
                                        location |-> location[a]], tick)
            /\ last' = [op |-> "talk", agent |-> a, target |-> target_id, ok |-> TRUE]
    /\ UNCHANGED <<n_agents, personality, location, func_tokens, faction, votes_cast,
                   gossip_heard, inventory, duel_record, active_quests>>
    /\ UNCHANGED <<duelVars, landlordVars, questVars, persistVars, loopVars, offerVars, agentVars, partyVars, ledgerVars,
                   worldVars, politicsVars, gossipVars, economyVars>>

(***************************************************************************)
(* The long-conversation specification: two agents in the lobby.           *)
(* Agent 1 first duels agent 2 again and again, then talks on; what it     *)
(* does is fixed by the number of interactions so far, and is free again   *)
(* in the last commands, so that the state space stays one long run with a *)
(* small tree at its end.                                                  *)
(***************************************************************************)
\* duels at the start of the run
OpeningDuels == 24
\* commands of the whole run
MaxTalks == 1010
\* the commands of the run that are not fixed
FreeTalks == 4

Messages ==
    <<<<"h", "i">>, <<"o", "n", " ", "g", "u", "a", "r", "d">>, <<>>>>

\* the interactions of agent 1 with agent 2 so far
Spoken ==
    IF n_agents >= 1 /\ 2 \in DOMAIN relationships[1] THEN relationships[1][2].interactions ELSE 0

NextLog ==
    \/ Register(2, "nerd")
    \/ /\ Spoken < OpeningDuels
       /\ Duel(1, 2, 0, 1)
    \/ /\ Spoken >= OpeningDuels /\ Spoken < MaxTalks - FreeTalks
       /\ AgentTalk(1, Messages[(Spoken % 3) + 1], IF Spoken % 5 = 0 THEN Nobody ELSE 2)
    \/ /\ Spoken >= MaxTalks - FreeTalks /\ Spoken < MaxTalks
       /\ \E a \in {1, 3}, target_id \in {Nobody, 2, 3} :
             AgentTalk(a, Messages[1], target_id)

LogInit ==
    IdleParty /\ IdleLedger /\ IdleWorld /\ IdlePolitics /\ IdleGossip /\ IdleEconomy
    /\ IdleSocial /\ IdleDuel /\ IdleLandlord /\ IdleQuests /\ IdleLog /\ IdlePersist /\ IdleLoop /\ IdleAgents /\ IdleOffers
    /\ last = NoCall

SpecLog == LogInit /\ [][NextLog]_vars

\* C30: the event log never holds more than 1000 entries, and an append that
\* would make it longer leaves the 500 most recent entries in their order;
\* no relationship's history holds more than 20 entries, and an event added
\* to a full history drops the oldest one; every affinity lies in [-100, 100].
C30_Bounded ==
    /\ [](/\ Len(event_log) <= 1000
          /\ \A a \in 1..n_agents : \A t \in DOMAIN relationships[a] :
                /\ Len(relationships[a][t].history) <= 20
                /\ relationships[a][t].affinity >= -100
                /\ relationships[a][t].affinity <= 100)
    /\ [][/\ (event_log' # event_log /\ Len(event_log) = 1000) =>
               /\ Len(event_log') = 500
               /\ \A i \in 1..499 : event_log'[i] = event_log[i + 501]
               /\ event_log'[500].type \in {"talk_private", "talk_room", "duel"}
          /\ (event_log' # event_log /\ Len(event_log) < 1000) =>
               /\ Len(event_log') = Len(event_log) + 1
               /\ SubSeq(event_log', 1, Len(event_log)) = event_log
          /\ \A a \in 1..n_agents : \A t \in DOMAIN relationships[a] :
                LET old == relationships[a][t].history
                    new == relationships'[a][t].history
                IN (new # old /\ Len(old) = 20) =>
                      /\ Len(new) = 20
                      /\ \A i \in 1..19 : new[i] = old[i + 1]
      ]_vars

\* the log has just been cut to 500 entries, a history is full, and the
\* affinity stands at the upper end after having stood at the lower end
C30_Witness ==
    /\ Len(event_log) = 500
    /\ last.op = "talk"
    /\ Len(relationships[1][2].history) = 20
    /\ relationships[1][2].affinity = 100
    /\ relationships[1][2].interactions > 1000

\* the relationship after the twentieth duel: at the lower end
C30_Lowest ==
    /\ Len(event_log) = 20
    /\ relationships[1][2].affinity = -100
    /\ relationships[2][1].affinity = -100

(***************************************************************************)
(* routes.py: act, the unified command entry point                         *)
(*                                                                         *)
(* An action name is a list of pieces: a piece is a run of white space or  *)
(* a word with its case.  A parameter value carries its JSON type.         *)
(***************************************************************************)
Space == [text |-> " ", caps |-> FALSE]
Word(text) == [text |-> text, caps |-> FALSE]
Caps(text) == [text |-> text, caps |-> TRUE]

\* str.lower
str_lower(s) == [i \in DOMAIN s |-> [s[i] EXCEPT !.caps = FALSE]]

\* str.strip: the white space at both ends is dropped
RECURSIVE str_strip(_)
str_strip(s) ==
    IF s = <<>> THEN s
    ELSE IF s[1] = Space THEN str_strip(Tail(s))
    ELSE IF s[Len(s)] = Space THEN str_strip(SubSeq(s, 1, Len(s) - 1))
    ELSE s

\* act: action = req.action.lower().strip()
Normal(raw) == str_strip(str_lower(raw))

\* act: the names of the else branch
all_actions ==
    {"move", "look", "talk", "gossip_start", "gossip_spread", "throw_party", "cook",
     "prank", "board_post", "duel", "explore", "join_faction", "propose", "vote",
     "trade_create", "trade_accept", "market_buy", "market_sell", "quest_accept"}

\* action == "name"
Is(action, name) == action = <<Word(name)>>
Known(action) == \E name \in all_actions : Is(action, name)

\* the branches of act that are followed
Followed == {"move", "talk", "duel", "market_buy", "quest_accept"}

\* JSON values (a number sent as a message is held by its digits)
Str(v) == [t |-> "str", v |-> v]
Num(v) == [t |-> "num", v |-> v]
List(v) == [t |-> "list", v |-> v]
Id(a) == [t |-> "id", v |-> a]

\* params.get(key, default)
get(params, key, default) == IF key \in DOMAIN params THEN params[key] ELSE default

\* `not value` on a JSON value
Falsy(value) ==
    \/ value.t = "str" /\ value.v = ""
    \/ value.t = "list" /\ value.v = <<>>
    \/ value.t = "num" /\ value.v = 0
    \/ value.t = "none"

World ==
    <<partyVars, ledgerVars, worldVars, politicsVars, gossipVars, economyVars,
      socialVars, duelVars, landlordVars, questVars, logVars, persistVars, loopVars,
      agentVars, offerVars>>

\* a fault that leaves the handler
try_except_Propagate(e) ==
    /\ last' = [op |-> "act", fault |-> e]
    /\ UNCHANGED World

\* act: except Exception as e: result = {"success": False, "error": str(e)}
\* (for an exception raised before the action has written anything; e is the
\* text of the exception)
try_except(e) ==
    /\ last' = [op |-> "act", ok |-> FALSE, error |-> e]
    /\ UNCHANGED World

\* a result that act builds itself
Refuse(error) ==
    /\ last' = [op |-> "act", ok |-> FALSE, error |-> error]
    /\ UNCHANGED World

\* the exception that the action of a command raises, if any:
\* an unhashable destination or item looked up in a dict, a message that
\* cannot be sliced, a wager that cannot be compared with 0
Raised(a, action, params) ==
    IF Is(action, "move") /\ get(params, "destination", Str("lobby")).t = "list"
    THEN <<"unhashable type: 'list'">>
    ELSE IF /\ Is(action, "talk")
            /\ get(params, "message", Str(<<".", ".", ".">>)).t = "num"
            /\ LET target_id == get(params, "target_id", [t |-> "none"])
               IN IF Falsy(target_id)
                  THEN \E o \in 1..n_agents : o # a /\ location[o] = location[a]
                  ELSE /\ target_id.t = "id" /\ target_id.v <= n_agents
                       /\ location[target_id.v] = location[a]
    THEN <<"'int' object is not subscriptable">>
    ELSE IF /\ Is(action, "duel")
            /\ ~Falsy(get(params, "target_id", Str("")))
            /\ get(params, "wager", Num(0)).t = "str"
            /\ get(params, "target_id", Str("")).v <= n_agents
            /\ location[get(params, "target_id", Str("")).v] = location[a]
    THEN <<"'>' not supported between instances of 'str' and 'int'">>
    ELSE IF /\ Is(action, "market_buy")
            /\ ~Falsy(get(params, "item_id", Str("")))
            /\ get(params, "item_id", Str("")).t = "list"
    THEN <<"unhashable type: 'list'">>
    ELSE <<>>

\* act: the agent is looked up (404 if missing), the action name is
\* normalised, the branch of the action runs inside try/except, and the
\* result is returned.  The branches of Followed and the else branch are
\* followed; a command of another branch is not a step of the model.
Act(a, raw, params) ==
    LET action == Normal(raw) IN
    IF a > n_agents
    THEN /\ last' = [op |-> "act", status |-> 404]
         /\ UNCHANGED World
    ELSE IF Raised(a, action, params) # <<>>
    THEN try_except(Raised(a, action, params))
    ELSE IF Is(action, "move")
    THEN MoveAgent(a, get(params, "destination", Str("lobby")).v)
    ELSE IF Is(action, "talk")
    THEN LET target_id == get(params, "target_id", [t |-> "none"])
         IN AgentTalk(a, get(params, "message", Str(<<".", ".", ".">>)).v,
                      IF Falsy(target_id) THEN Nobody ELSE target_id.v)
    ELSE IF Is(action, "duel")
    THEN IF Falsy(get(params, "target_id", Str("")))
         THEN Refuse(<<"target_id is required">>)
         ELSE \E winner \in {a, get(params, "target_id", Str("")).v} :
                 Duel(a, get(params, "target_id", Str("")).v,
                      get(params, "wager", Num(0)).v, winner)
    ELSE IF Is(action, "market_buy")
    THEN IF Falsy(get(params, "item_id", Str("")))
         THEN Refuse(<<"item_id is required">>)
         ELSE BuyFromMarket(a, get(params, "item_id", Str("")).v)
    ELSE IF Is(action, "quest_accept")
    THEN IF Falsy(get(params, "quest_id", Str("")))
         THEN Refuse(<<"quest_id is required">>)
         ELSE AcceptQuest(a, get(params, "quest_id", Str("")).v)
    ELSE /\ ~Known(action)
         /\ Refuse(<<"Unknown action", action, all_actions>>)

(***************************************************************************)
(* The command specification: agent 1 sends commands, agent 2 is there,    *)
(* and a sender that is not registered sends commands too.                 *)
(***************************************************************************)
Senders == {1, 3}
\* commands of a run that are logged, buy or accept a quest
MaxLogged == 2

NoParams == <<>>
Commands ==
    {[action |-> <<Space, Caps("fly"), Space>>, params |-> NoParams],
     [action |-> <<Word("mo"), Space, Word("ve")>>,
      params |-> [destination |-> Str("kitchen")]],
     [action |-> <<>>, params |-> NoParams],
     [action |-> <<Caps("move"), Space>>, params |-> [destination |-> Str("kitchen")]],
     [action |-> <<Word("move")>>, params |-> NoParams],
     [action |-> <<Word("move")>>, params |-> [destination |-> Str("roof")]],
     [action |-> <<Word("move")>>, params |-> [destination |-> List(<<>>)]],
     [action |-> <<Word("talk")>>, params |-> [message |-> Str(<<"h", "i">>)]],
     [action |-> <<Word("talk")>>,
      params |-> [message |-> Str(<<"h", "i">>), target_id |-> Id(2)]],
     [action |-> <<Word("talk")>>, params |-> [message |-> Num(<<"5">>)]],
     [action |-> <<Word("talk")>>, params |-> [message |-> Num(<<"5">>), target_id |-> Id(1)]],
     [action |-> <<Word("duel")>>, params |-> NoParams],
     [action |-> <<Word("duel")>>, params |-> [target_id |-> Id(2)]],
     [action |-> <<Word("duel")>>,
      params |-> [target_id |-> Id(1), wager |-> Str("all")]],
     [action |-> <<Space, Word("market_buy")>>, params |-> NoParams],
     [action |-> <<Word("market_buy")>>, params |-> [item_id |-> Str("fortune_cookie")]],
     [action |-> <<Word("market_buy")>>,
      params |-> [item_id |-> List(<<"fortune_cookie">>)]],
     [action |-> <<Word("quest_accept")>>, params |-> [quest_id |-> Str("")]],
     [action |-> <<Word("quest_accept")>>, params |-> [quest_id |-> Id(1)]]}

\* the commands whose normalised name is not an action
UnknownCommands == {c \in Commands : ~Known(Normal(c.action))}

NextAct ==
    \/ Register(2, "nerd")
    \/ \E a \in Senders, c \in Commands :
          /\ Len(event_log) + Len(transaction_history) + Cardinality(quests) < MaxLogged
          /\ Act(a, c.action, c.params)

ActInit ==
    IdleParty /\ IdleLedger /\ IdleWorld /\ IdlePolitics /\ IdleGossip /\ IdleEconomy
    /\ IdleSocial /\ IdleDuel /\ IdleLandlord /\ IdleQuests /\ IdleLog /\ IdlePersist /\ IdleLoop /\ IdleAgents /\ IdleOffers /\ last = NoCall

SpecAct == ActInit /\ [][NextAct]_vars

\* C27: every command of a registered agent returns a result object; a
\* command whose normalised name is not an action returns a failure that
\* names it and changes nothing of the world; an exception raised inside an
\* action is returned as a failure that carries its text.
C27_Total ==
    [][/\ \/ "ok" \in DOMAIN last'
          \/ \A a \in Senders, c \in Commands :
                ~(a <= n_agents /\ Act(a, c.action, c.params))
       /\ \A a \in Senders, c \in UnknownCommands :
             (a <= n_agents /\ Act(a, c.action, c.params)) =>
                /\ ~last'.ok
                /\ Len(last'.error) = 3
                /\ last'.error[1] = "Unknown action"
                /\ last'.error[2] = Normal(c.action)
                /\ UNCHANGED World
       /\ \A a \in Senders, c \in Commands :
                (/\ a <= n_agents /\ Raised(a, Normal(c.action), c.params) # <<>>
                 /\ Act(a, c.action, c.params)) =>
                   /\ ~last'.ok
                   /\ last'.error = Raised(a, Normal(c.action), c.params)
    ]_vars

\* an unknown action has just been refused, after other commands had acted
C27_Witness ==
    /\ last.op = "act" /\ "ok" \in DOMAIN last /\ ~last.ok
    /\ Len(last.error) = 3
    /\ last.error[2] = <<Word("fly")>>
    /\ Len(event_log) = 1
    /\ n_agents = 2 /\ location[1] = "kitchen"

\* an exception has just been returned as a failure
C27_Caught ==
    /\ last.op = "act" /\ "ok" \in DOMAIN last /\ ~last.ok
    /\ last.error = <<"'int' object is not subscriptable">>
    /\ n_agents = 2 /\ location[1] = location[2] /\ Len(event_log) = 1

(***************************************************************************)
(* world.py and persistence.py: the building is saved and built again      *)
(***************************************************************************)
\* the names of agents.py that world.py binds: the import at the top of the
\* module and the import inside _restore_from_disk
WorldNames == {"Agent", "Personality", "Mood", "create_agent"}

\* the names of agents.py that the construction of a restored Agent evaluates
RestoreNames == {"Agent", "Personality", "PERSONALITY_STATS", "Mood"}

\* _restore_from_disk, the agents: every saved agent is built inside
\* try/except; a name that is not bound raises NameError, which is caught,
\* and the agent is skipped
restored_agents(files) ==
    IF files.saved /\ RestoreNames \subseteq WorldNames THEN files.agents ELSE <<>>

\* The process starts again: Building.__init__ makes new engines and
\* _restore_from_disk loads what the files give.
Restart ==
    LET r == restored_agents(disk)
        n == Len(r)
    IN /\ vibes' = <<>>
       /\ attendees' = {}
       /\ state' = PartyState0
       /\ vibe_idx' = 1
       /\ party_pc' = "idle"
       /\ short_circuit' = FALSE
       /\ duel' = NoDuel
       /\ n_agents' = n
       /\ personality' = [a \in 1..n |-> r[a].personality]
       /\ location' = [a \in 1..n |-> r[a].location]
       /\ func_tokens' = [a \in 1..n |-> r[a].func_tokens]
       /\ faction' = [a \in 1..n |-> r[a].faction]
       /\ votes_cast' = [a \in 1..n |-> r[a].votes_cast]
       /\ inventory' = [a \in 1..n |-> r[a].inventory]
       /\ duel_record' = [a \in 1..n |-> r[a].duel_record]
       /\ clout' = [a \in 1..n |-> r[a].clout]
       /\ cancelled_trades' = <<>>
       /\ stats' = [a \in 1..n |-> PERSONALITY_STATS[r[a].personality]]
       /\ gossip_heard' = [a \in 1..n |-> <<>>]
       /\ relationships' = [a \in 1..n |-> NoRelationships]
       /\ active_quests' = [a \in 1..n |-> <<>>]
       /\ available_quests' = [q \in DOMAIN QUEST_TEMPLATES |-> Quest(QUEST_TEMPLATES[q])]
       /\ quests' = {}
       /\ event_log' = <<>>
       /\ decrees' = <<>>
       /\ active_effects' = <<>>
       /\ events' = <<>>
       /\ proposals' = <<>>
       /\ faction_members' = [g \in Factions |-> <<>>]
       /\ faction_leaders' = <<>>
       /\ active_chains' = <<>>
       /\ completed_chains' = <<>>
       /\ market_supply' = [item \in MarketItems |-> InitialSupply]
       /\ market_prices' = [item \in MarketItems |-> MARKET_ITEMS[item].base_price]
       /\ open_trades' = <<>>
       /\ completed_trades' = <<>>
       /\ transaction_history' = <<>>
       /\ parties' = <<>>
       /\ duel_history' = <<>>
       /\ tick' = IF disk.saved THEN disk.tick ELSE 0
       /\ season' = IF disk.saved THEN disk.season ELSE 1
       /\ episode' = IF disk.saved THEN disk.episode ELSE 1
       /\ disk' = disk
       /\ tasks' = NoTasks
       /\ loop' = Free
       /\ last' = [op |-> "restart", ok |-> TRUE, restored |-> n]

(***************************************************************************)
(* The persistence specification: two agents act, the ticks save the       *)
(* building, and the process starts again at any moment.                   *)
(***************************************************************************)
\* ticks of one process
MaxUptime == 11
Residents == {1, 2}

NextPersist ==
    \/ Register(Cardinality(Residents), "nerd")
    \/ \E a \in Residents : MoveAgent(a, "kitchen")
    \/ Len(transaction_history) < 1 /\ BuyFromMarket(1, "fortune_cookie")
    \/ JoinFaction(2, "purists")
    \/ Len(duel_history) < 1 /\ Duel(1, 2, 10, 1)
    \/ tick < MaxUptime /\ AdvanceTick(PlainDraws, QuietOmens)
    \/ Restart

PersistInit ==
    IdleParty /\ IdleLedger /\ IdleWorld /\ IdlePolitics /\ IdleGossip /\ IdleEconomy
    /\ IdleSocial /\ IdleDuel /\ IdleLandlord /\ IdleQuests /\ IdleLog /\ IdlePersist /\ IdleLoop /\ IdleAgents /\ IdleOffers
    /\ last = NoCall

SpecPersist == PersistInit /\ [][NextPersist]_vars

\* C28: a building made from the saved files has every saved agent again,
\* under its id, with the saved personality, location, balance, inventory,
\* faction and duel record, and has the saved tick, season and episode.
C28_RoundTrip ==
    [][(Restart /\ disk.saved) =>
          /\ n_agents' = Len(disk.agents)
          /\ \A a \in 1..Len(disk.agents) :
                /\ disk.agents[a].id = a
                /\ personality'[a] = disk.agents[a].personality
                /\ location'[a] = disk.agents[a].location
                /\ func_tokens'[a] = disk.agents[a].func_tokens
                /\ inventory'[a] = disk.agents[a].inventory
                /\ faction'[a] = disk.agents[a].faction
                /\ duel_record'[a] = disk.agents[a].duel_record
          /\ tick' = disk.tick /\ season' = disk.season /\ episode' = disk.episode
    ]_vars

\* two agents had been saved at tick 10, one in the kitchen with a fortune
\* cookie and a won duel, and the building made from the files has no agent
C28_Witness ==
    /\ last.op = "restart"
    /\ disk.saved /\ Len(disk.agents) = 2
    /\ disk.agents[1].location = "kitchen"
    /\ disk.agents[1].inventory = <<"fortune_cookie">>
    /\ disk.agents[1].duel_record.wins = 1
    /\ disk.agents[2].faction = "purists"
    /\ n_agents = 0
    /\ tick = 10

\* what the restart does restore: the counters
C28_CountersRestored ==
    [][(Restart /\ disk.saved) =>
          tick' = disk.tick /\ season' = disk.season /\ episode' = disk.episode]_vars

(***************************************************************************)
(* main.py and routes.py: the coroutines on the event loop                 *)
(*                                                                         *)
(* A coroutine that runs keeps the loop until its next await.  The duel    *)
(* command of act is followed write by write; register, the tick of        *)
(* auto_tick_loop and the tick command are one run each from await to      *)
(* await, and are taken when the loop is free.                             *)
(***************************************************************************)
\* a handler that is set aside after every step
Suspended_Preempted(pc) == TRUE

\* the positions at which a handler does not run: no request, the request
\* received and not yet taken up, and the await of _broadcast
Suspended(pc) == pc \in {"none", "received", "broadcast"}

\* the handler has made its first write and not yet its last
InFlight(pc) == pc \in {"fought", "scored", "paid", "related"}

\* handler h may make a step, and the loop after a step that leaves it at pc
Runs(h) == loop = h \/ (loop = Free /\ Suspended(tasks[h].pc))
After(h, pc) == IF Suspended(pc) THEN Free ELSE h

\* a request for the duel command arrives
Arrive(h, challenger, target, wager) ==
    /\ tasks[h].pc = "none"
    /\ tasks' = [tasks EXCEPT ![h] = [pc |-> "received", challenger |-> challenger,
                                       target |-> target, wager |-> wager]]
    /\ UNCHANGED <<partyVars, ledgerVars, worldVars, politicsVars, gossipVars,
                   economyVars, socialVars, duelVars, landlordVars, questVars, logVars,
                   persistVars, offerVars, agentVars, loop, last>>

\* act, then Building.duel up to duel_history.append: the early returns, or
\* the duel is resolved and appended to the history
DuelBegin(h, winner) ==
    LET t == tasks[h] IN
    /\ t.pc = "received" /\ Runs(h)
    /\ winner \in {t.challenger, t.target}
    /\ IF duel_refused(t.challenger, t.target, t.wager)
       THEN /\ tasks' = [tasks EXCEPT ![h] = [pc |-> "none"]]
            /\ loop' = After(h, "none")
            /\ last' = [op |-> "duel", challenger |-> t.challenger,
                        target |-> t.target, wager |-> t.wager, ok |-> FALSE]
            /\ UNCHANGED duel_history
       ELSE /\ duel_history' =
                   Append(duel_history,
                          [winner_id |-> winner,
                           loser_id |-> IF winner = t.challenger THEN t.target
                                        ELSE t.challenger,
                           wager |-> t.wager, spoils |-> spoils(t.wager)])
            /\ tasks' = [tasks EXCEPT ![h] = [t EXCEPT !.pc = "fought"] @@
                                              [winner |-> winner]]
            /\ loop' = After(h, "fought")
            /\ UNCHANGED last
    /\ UNCHANGED <<partyVars, ledgerVars, worldVars, politicsVars, gossipVars,
                   tradingVars, parties, socialVars, duelVars, landlordVars, questVars,
                   logVars, persistVars, offerVars, agentVars>>

\* Building.duel: the records of the winner and of the loser
DuelScore(h) ==
    LET t == tasks[h]
        loser == IF t.winner = t.challenger THEN t.target ELSE t.challenger
        won == [duel_record EXCEPT ![t.winner] =
                    [@ EXCEPT !.wins = @ + 1, !.streak = @ + 1]]
    IN /\ t.pc = "fought" /\ Runs(h)
       /\ duel_record' = [won EXCEPT ![loser] =
                              [@ EXCEPT !.losses = @ + 1, !.streak = 0]]
       /\ tasks' = [tasks EXCEPT ![h].pc = "scored"]
       /\ clout' = award_clout(clout, t.winner, "prank_success")
       /\ loop' = After(h, "scored")
       /\ UNCHANGED <<partyVars, ledgerVars, worldVars, politicsVars, gossipVars,
                      economyVars, relationships, duelVars, landlordVars, questVars,
                      logVars, persistVars, offerVars, stats, last>>

\* Building.duel: the wager goes from the loser to the winner
DuelPay(h) ==
    LET t == tasks[h]
        loser == IF t.winner = t.challenger THEN t.target ELSE t.challenger
        paid == [func_tokens EXCEPT ![loser] = @ - t.wager]
    IN /\ t.pc = "scored" /\ Runs(h)
       /\ func_tokens' = IF t.wager > 0
                         THEN [paid EXCEPT ![t.winner] = @ + t.wager]
                         ELSE func_tokens
       /\ tasks' = [tasks EXCEPT ![h].pc = "paid"]
       /\ loop' = After(h, "paid")
       /\ UNCHANGED <<partyVars, worldVars, politicsVars, gossipVars, economyVars,
                      socialVars, duelVars, landlordVars, questVars, logVars,
                      persistVars, offerVars, agentVars, last>>

\* Building.duel: the two relationships
DuelRelate(h) ==
    LET t == tasks[h] IN
    /\ t.pc = "paid" /\ Runs(h)
    /\ relationships' =
           modify_relationship(
               modify_relationship(relationships, t.challenger, t.target, -5, "Dueled"),
               t.target, t.challenger, -5, "Dueled")
    /\ tasks' = [tasks EXCEPT ![h].pc = "related"]
    /\ loop' = After(h, "related")
    /\ UNCHANGED <<partyVars, ledgerVars, worldVars, politicsVars, gossipVars,
                   economyVars, duel_record, duelVars, landlordVars, questVars, logVars,
                   persistVars, offerVars, agentVars, last>>

\* Building.duel: the event is logged and the call returns; act then awaits
\* _broadcast
DuelLog(h) ==
    LET t == tasks[h] IN
    /\ t.pc = "related" /\ Runs(h)
    /\ event_log' = _log_event(event_log, "duel",
                               [challenger_id |-> t.challenger, defender_id |-> t.target,
                                winner_id |-> t.winner, wager |-> t.wager], tick)
    /\ last' = [op |-> "duel", challenger |-> t.challenger, target |-> t.target,
                wager |-> t.wager, ok |-> TRUE]
    /\ tasks' = [tasks EXCEPT ![h].pc = "broadcast"]
    /\ loop' = After(h, "broadcast")
    /\ UNCHANGED <<partyVars, ledgerVars, worldVars, politicsVars, gossipVars,
                   economyVars, socialVars, duelVars, landlordVars, questVars,
                   persistVars, offerVars, agentVars>>

\* act after the await: the context is built and the response returned
Respond(h) ==
    /\ tasks[h].pc = "broadcast" /\ Runs(h)
    /\ tasks' = [tasks EXCEPT ![h] = [pc |-> "none"]]
    /\ loop' = After(h, "none")
    /\ UNCHANGED <<partyVars, ledgerVars, worldVars, politicsVars, gossipVars,
                   economyVars, socialVars, duelVars, landlordVars, questVars, logVars,
                   persistVars, offerVars, agentVars, last>>

\* auto_tick_loop after its sleep: the tick runs if there is an agent
AutoTick ==
    /\ loop = Free
    /\ n_agents > 0
    /\ AdvanceTick(PlainDraws, QuietOmens)

\* the tick command
TickCommand ==
    /\ loop = Free
    /\ AdvanceTick(PlainDraws, QuietOmens)

(***************************************************************************)
(* The event-loop specification: two duel requests in flight, the tick     *)
(* loop and the tick command.                                              *)
(***************************************************************************)
\* requests and ticks of a run
MaxRequests == 2
MaxBeats == 2

DuelRequests ==
    {[challenger |-> 1, target |-> 2, wager |-> 10],
     [challenger |-> 2, target |-> 1, wager |-> 60]}

NextLoop ==
    \/ loop = Free /\ Register(2, "nerd")
    \/ \E h \in Handlers, r \in DuelRequests :
          /\ Len(duel_history) + Cardinality({g \in Handlers : tasks[g].pc # "none"})
                < MaxRequests
          /\ Arrive(h, r.challenger, r.target, r.wager)
    \/ \E h \in Handlers, winner \in {1, 2} : DuelBegin(h, winner)
    \/ \E h \in Handlers : DuelScore(h)
    \/ \E h \in Handlers : DuelPay(h)
    \/ \E h \in Handlers : DuelRelate(h)
    \/ \E h \in Handlers : DuelLog(h)
    \/ \E h \in Handlers : Respond(h)
    \/ tick < MaxBeats /\ AutoTick
    \/ tick < MaxBeats /\ TickCommand

LoopInit ==
    IdleParty /\ IdleLedger /\ IdleWorld /\ IdlePolitics /\ IdleGossip /\ IdleEconomy
    /\ IdleSocial /\ IdleDuel /\ IdleLandlord /\ IdleQuests /\ IdleLog /\ IdlePersist
    /\ IdleLoop /\ IdleAgents /\ IdleOffers /\ last = NoCall

SpecLoop == LoopInit /\ [][NextLoop]_vars

\* the state of the building
Building ==
    <<partyVars, ledgerVars, worldVars, politicsVars, gossipVars, economyVars,
      socialVars, duelVars, landlordVars, questVars, logVars, persistVars, offerVars, agentVars,
      offerVars>>

\* C29: while a command is between its first and its last write, every step
\* that changes the building is a step of that command: no tick and no write
\* of another command comes in between.
C29_Serialized ==
    [][\A h \in Handlers :
          InFlight(tasks[h].pc) => (tasks'[h] # tasks[h] \/ UNCHANGED Building)]_vars

\* two commands are in flight: one waits in its broadcast after a tick has
\* run, the other is between its writes
C29_Witness ==
    /\ tasks["h1"].pc = "broadcast"
    /\ tasks["h2"].pc = "paid"
    /\ loop = "h2"
    /\ tick = 1
    /\ Len(duel_history) = 2

(***************************************************************************)
(* trading.py: an offer is withdrawn                                       *)
(***************************************************************************)
\* TradingEngine.cancel_trade: an open offer is cancelled by its seller, and
\* leaves open_trades
CancelTrade(a, tid) ==
    /\ IF tid \notin DOMAIN open_trades \/ open_trades[tid].seller_id # a
       THEN /\ UNCHANGED <<open_trades, cancelled_trades>>
            /\ last' = [op |-> "cancel_trade", agent |-> a, trade |-> tid, ok |-> FALSE]
       ELSE /\ cancelled_trades' =
                   (tid :> [open_trades[tid] EXCEPT !.status = "cancelled"])
                   @@ cancelled_trades
            /\ open_trades' = [t \in DOMAIN open_trades \ {tid} |-> open_trades[t]]
            /\ last' = [op |-> "cancel_trade", agent |-> a, trade |-> tid, ok |-> TRUE]
    /\ UNCHANGED <<partyVars, ledgerVars, worldVars, politicsVars, gossipVars,
                   inventory, market_supply, market_prices, completed_trades,
                   transaction_history, parties, duel_history, socialVars, duelVars,
                   landlordVars, questVars, logVars, persistVars, loopVars, agentVars>>

(***************************************************************************)
(* exploration.py and world.py: an agent explores where it stands          *)
(***************************************************************************)
\* ARTIFACT_TEMPLATES: the rarity and the stat_bonus of every template
ARTIFACT_TEMPLATES ==
    [dusty_board_game     |-> [rarity |-> "common", stat_bonus |-> [creativity |-> 1]],
     broken_clock         |-> [rarity |-> "common", stat_bonus |-> [purity |-> 1]],
     mysterious_key       |-> [rarity |-> "common", stat_bonus |-> [chaos |-> 1]],
     gossip_amplifier     |-> [rarity |-> "common", stat_bonus |-> [charisma |-> 1]],
     landlords_journal    |-> [rarity |-> "rare",
                               stat_bonus |-> [creativity |-> 2, purity |-> 1]],
     quantum_dice         |-> [rarity |-> "rare",
                               stat_bonus |-> [chaos |-> 2, drama |-> 1]],
     cooking_utensil      |-> [rarity |-> "rare", stat_bonus |-> [purity |-> 2]],
     social_radar         |-> [rarity |-> "rare", stat_bonus |-> [charisma |-> 2]],
     maybe_compass        |-> [rarity |-> "epic", stat_bonus |-> [creativity |-> 3]],
     drama_crown          |-> [rarity |-> "epic",
                               stat_bonus |-> [drama |-> 3, charisma |-> 1]],
     chaos_scepter        |-> [rarity |-> "epic", stat_bonus |-> [chaos |-> 3]],
     bind_operator        |-> [rarity |-> "legendary",
                               stat_bonus |-> [charisma |-> 3, creativity |-> 3,
                                               drama |-> 3, purity |-> 3, chaos |-> 3]],
     kleislis_arrow       |-> [rarity |-> "legendary",
                               stat_bonus |-> [creativity |-> 4, charisma |-> 2]],
     functor_lens         |-> [rarity |-> "legendary",
                               stat_bonus |-> [purity |-> 4, creativity |-> 2]]]

\* the exploration that finds no artifact
NoArtifact == "none"

\* explore_location, discovery_chance in hundredths: 0.3 + creativity * 0.03
\* + chaos * 0.02, and 0.2 more in the basement
discovery_chance(st, loc) ==
    30 + 3 * st.creativity + 2 * st.chaos + (IF loc = "basement" THEN 20 ELSE 0)

\* a stat that an artifact raises without a ceiling
artifact_bonuses_NoCeiling(st, bonus) ==
    [k \in DOMAIN st |-> IF k \in DOMAIN bonus THEN st[k] + bonus[k] ELSE st[k]]

\* explore_location, "Apply stat bonuses": every stat the artifact names
\* rises by the bonus, up to 15
artifact_bonuses(st, bonus) ==
    [k \in DOMAIN st |-> IF k \in DOMAIN bonus THEN Min(15, st[k] + bonus[k])
                         ELSE st[k]]

\* Building.explore / ExplorationEngine.explore_location: random.random()
\* is below the discovery chance or not, and the artifact found is any
\* template; the find is logged.  (The artifact lists, the achievements and
\* the exploration count of the agent are not followed.)
Explore(a, found) ==
    /\ found \in DOMAIN ARTIFACT_TEMPLATES \cup {NoArtifact}
    /\ IF a > n_agents
       THEN /\ UNCHANGED <<stats, event_log>>
            /\ last' = [op |-> "explore", agent |-> a, found |-> NoArtifact, ok |-> FALSE]
       ELSE /\ found = NoArtifact => discovery_chance(stats[a], location[a]) < 100
            /\ IF found = NoArtifact
               THEN UNCHANGED <<stats, event_log>>
               ELSE /\ stats' = [stats EXCEPT ![a] =
                           artifact_bonuses(@, ARTIFACT_TEMPLATES[found].stat_bonus)]
                    /\ event_log' = _log_event(event_log, "artifact_found",
                                               [agent_id |-> a, artifact |-> found], tick)
            /\ last' = [op |-> "explore", agent |-> a, found |-> found, ok |-> TRUE]
    /\ UNCHANGED <<partyVars, ledgerVars, worldVars, politicsVars, gossipVars,
                   economyVars, socialVars, duelVars, landlordVars, questVars,
                   persistVars, loopVars, offerVars, clout>>

(***************************************************************************)
(* The closed-economy specification: two agents use every command, and      *)
(* FUNC is counted.                                                         *)
(***************************************************************************)
\* sum(agent.func_tokens for agent in agents)
RECURSIVE SumFunc(_)
SumFunc(ft) == IF ft = <<>> THEN 0 ELSE ft[Len(ft)] + SumFunc(SubSeq(ft, 1, Len(ft) - 1))

Citizens == {1, 2}
Artifacts == {NoArtifact, "dusty_board_game"}
\* what a run has produced so far: ticks, log entries, duels, transactions,
\* parties, rumors and their listeners, proposals and votes, offers, accepted
\* quests, agents out of the lobby and agents in a faction
Activity ==
    tick + Len(event_log) + Len(duel_history) + Len(transaction_history) + Len(parties)
    + Cardinality(DOMAIN active_chains) + Len(completed_chains)
    + Cardinality(DOMAIN proposals) + Cardinality(DOMAIN open_trades)
    + Len(completed_trades) + Cardinality(DOMAIN cancelled_trades) + Cardinality(quests)
    + SumFunc(votes_cast) + SumFunc([a \in 1..n_agents |-> Len(gossip_heard[a])])
    + Cardinality({a \in 1..n_agents : location[a] # "lobby"})
    + Cardinality({a \in 1..n_agents : faction[a] # NoFaction})
MaxActivity == 2

NextClosed ==
    \/ Register(Cardinality(Citizens), Entrant(n_agents + 1))
    \/ \E a \in Citizens, destination \in LOCATIONS :
          Activity < MaxActivity /\ MoveAgent(a, destination)
    \/ \E a \in Citizens, target_id \in Citizens :
          Activity < MaxActivity /\ AgentTalk(a, Messages[1], target_id)
    \/ \E a \in Citizens, gid \in GossipIds, content \in ContentInputs :
          Activity < MaxActivity /\ StartGossip(a, gid, content)
    \/ \E a \in Citizens, gid \in GossipIds, target \in Citizens, draw \in PlainDraws :
          Activity < MaxActivity /\ SpreadGossip(a, gid, target, draw)
    \/ \E challenger \in Citizens, target \in Citizens, wager \in {0, 50},
          winner \in Citizens :
          Activity < MaxActivity /\ Duel(challenger, target, wager, winner)
    \/ \E a \in Citizens : Activity < MaxActivity /\ JoinFaction(a, "purists")
    \/ \E a \in Citizens, pid \in ProposalIds :
          Activity < MaxActivity /\ CreateProposal(a, pid, <<>>)
    \/ \E a \in Citizens, pid \in ProposalIds :
          Activity < MaxActivity /\ VoteOnProposal(a, pid, "yes")
    \/ \E a \in Citizens, tid \in TradeIds, offering \in Offerings, asking \in Askings :
          Activity < MaxActivity /\ CreateTrade(a, tid, offering, asking)
    \/ \E buyer \in Citizens, tid \in TradeIds :
          Activity < MaxActivity /\ AcceptTrade(buyer, tid)
    \/ \E a \in Citizens, tid \in TradeIds :
          Activity < MaxActivity /\ CancelTrade(a, tid)
    \/ \E a \in Citizens, found \in Artifacts :
          Activity < MaxActivity /\ Explore(a, found)
    \/ \E a \in Citizens : Activity < MaxActivity /\ AcceptQuest(a, 1)
    \/ \E a \in Citizens :
          Activity < MaxActivity /\ AdvanceQuest(a, 1, <<"move", "to", "basement">>)
    \/ Activity < MaxActivity /\ AdvanceTick(PlainDraws, QuietOmens)
    \/ \E host \in Citizens :
          Activity < MaxActivity /\ ThrowParty(host, <<"chill">>, "lobby")
    \/ \E a \in Citizens :
          Activity < MaxActivity /\ BuyFromMarket(a, "fortune_cookie")
    \/ \E a \in Citizens :
          Activity < MaxActivity /\ SellToMarket(a, "fortune_cookie")

ClosedInit ==
    IdleParty /\ IdleLedger /\ IdleWorld /\ IdlePolitics /\ IdleGossip /\ IdleEconomy
    /\ IdleSocial /\ IdleDuel /\ IdleLandlord /\ IdleQuests /\ IdleLog /\ IdlePersist
    /\ IdleLoop /\ IdleAgents /\ IdleOffers /\ last = NoCall

SpecClosed == ClosedInit /\ [][NextClosed]_vars

\* the operations that mint or destroy FUNC
Minting == {"register", "throw_party", "buy_from_market", "sell_to_market"}

C31_WagerWon ==
    /\ last.op = "duel" /\ last.ok /\ last.wager = 50
    /\ last.challenger # last.target
    /\ {func_tokens[1], func_tokens[2]} = {StartingFunc - 50, StartingFunc + 50}

(***************************************************************************)
(* The stats specification: one agent registers with any personality and    *)
(* a low, plain or high draw, joins factions and explores.                  *)
(***************************************************************************)
\* the draws of create_agent that are followed: every stat down, every stat
\* as in the profile, every stat up
EvenJitters == {[k \in StatNames |-> d] : d \in {-1, 0, 1}}
Newcomers == {"nerd", "chaos_gremlin"}
Finds == {NoArtifact, "functor_lens", "chaos_scepter"}
Causes == {"purists", "chaoticians", "landlords"}
\* artifacts found in a run
MaxFinds == 3

NextStats ==
    \/ \E p \in Newcomers, jitter \in EvenJitters : RegisterAgent(1, p, jitter)
    \/ \E f \in Causes : JoinFaction(1, f)
    \/ \E found \in Finds : Len(event_log) < MaxFinds /\ Explore(1, found)

StatsInit ==
    IdleParty /\ IdleLedger /\ IdleWorld /\ IdlePolitics /\ IdleGossip /\ IdleEconomy
    /\ IdleSocial /\ IdleDuel /\ IdleLandlord /\ IdleQuests /\ IdleLog /\ IdlePersist
    /\ IdleLoop /\ IdleAgents /\ IdleOffers /\ last = NoCall

SpecStats == StatsInit /\ [][NextStats]_vars

\* C32: every stat of every agent is in [1, 15]; after a registration and
\* after a join the stats written are in [1, 10]; and only an exploration
\* takes a stat above 10 or raises one that is above 10.
C32_StatsInRange ==
    /\ \A a \in 1..n_agents : \A k \in StatNames : stats[a][k] \in 1..15
    /\ last.op = "register" => \A k \in StatNames : stats[n_agents][k] \in 1..10
    /\ (last.op = "join_faction" /\ last.ok) =>
           \A k \in DOMAIN FACTION_BONUSES[last.faction] : stats[last.agent][k] \in 1..10
    /\ (\E a \in 1..n_agents : \E k \in StatNames : stats[a][k] > 10) =>
           \E i \in DOMAIN event_log : event_log[i].type = "artifact_found"

\* two artifacts have taken purity to the ceiling of 15
C32_Witness ==
    /\ n_agents = 1 /\ last.op = "explore" /\ last.ok
    /\ last.found = "functor_lens"
    /\ stats[1].purity = 15
    /\ stats[1].creativity > 10

\* C40: a successful join_faction lowers no stat that the faction gives a
\* positive bonus and raises no stat that it gives a negative one, whatever
\* registration, exploration and earlier joins have made of the stats.
C40_BonusKeepsItsSign ==
    [][(last'.op = "join_faction" /\ last'.ok) =>
          LET a == last'.agent
              bonuses == FACTION_BONUSES[last'.faction]
          IN \A k \in DOMAIN bonuses :
                /\ bonuses[k] > 0 => stats'[a][k] >= stats[a][k]
                /\ bonuses[k] < 0 => stats'[a][k] <= stats[a][k]
    ]_vars

\* an agent whose purity an artifact had taken above 10 has just joined the
\* purists, and its purity is 10
C40_Witness ==
    /\ last.op = "join_faction" /\ last.ok /\ last.faction = "purists"
    /\ \E i \in DOMAIN event_log : event_log[i].data.artifact = "functor_lens"
    /\ stats[1].creativity > 10
    /\ stats[1].purity = 10

(***************************************************************************)
(* The offers specification: two agents post, accept and cancel offers.     *)
(***************************************************************************)
Dealers == {1, 2}
OfferIds == {"t1", "t2"}
SmallOffers == {[type |-> "func", id |-> NoItem, amount |-> 10]}
\* offers accepted in a run
MaxAccepted == 2

\* the ids of the accepted offers
AcceptedIds == {completed_trades[i].id : i \in DOMAIN completed_trades}

NextOffers ==
    \/ Register(Cardinality(Dealers), "nerd")
    \/ \E a \in Dealers, tid \in OfferIds, offering \in SmallOffers, asking \in SmallOffers :
          CreateTrade(a, tid, offering, asking)
    \/ \E buyer \in Dealers, tid \in OfferIds :
          Len(completed_trades) < MaxAccepted /\ AcceptTrade(buyer, tid)
    \/ \E a \in Dealers, tid \in OfferIds : CancelTrade(a, tid)

OffersInit ==
    IdleParty /\ IdleLedger /\ IdleWorld /\ IdlePolitics /\ IdleGossip /\ IdleEconomy
    /\ IdleSocial /\ IdleDuel /\ IdleLandlord /\ IdleQuests /\ IdleLog /\ IdlePersist
    /\ IdleLoop /\ IdleAgents /\ IdleOffers /\ last = NoCall

SpecOffers == OffersInit /\ [][NextOffers]_vars

\* C33: an offer in open_trades is open; an offer leaves open_trades only by
\* being accepted, by a buyer who is not its seller, or by being cancelled,
\* by its seller; an accepted or cancelled offer keeps its status and its
\* buyer for good and is neither accepted nor cancelled again.
C33_StatusMoves ==
    [][/\ \A tid \in DOMAIN open_trades' : open_trades'[tid].status = "open"
       /\ Len(completed_trades') >= Len(completed_trades)
       /\ SubSeq(completed_trades', 1, Len(completed_trades)) = completed_trades
       /\ \A tid \in DOMAIN cancelled_trades :
             tid \in DOMAIN cancelled_trades'
             /\ cancelled_trades'[tid] = cancelled_trades[tid]
       /\ \A i \in DOMAIN completed_trades' \ DOMAIN completed_trades :
             LET t == completed_trades'[i] IN
             /\ last'.op = "accept_trade" /\ last'.ok /\ last'.trade = t.id
             /\ t.id \in DOMAIN open_trades /\ t.id \notin DOMAIN open_trades'
             /\ t.id \notin AcceptedIds /\ t.id \notin DOMAIN cancelled_trades'
             /\ t.status = "accepted"
             /\ t.buyer_id = last'.buyer /\ t.buyer_id # t.seller_id
             /\ t.seller_id = open_trades[t.id].seller_id
       /\ \A tid \in DOMAIN cancelled_trades' \ DOMAIN cancelled_trades :
             /\ last'.op = "cancel_trade" /\ last'.ok /\ last'.trade = tid
             /\ tid \in DOMAIN open_trades /\ tid \notin DOMAIN open_trades'
             /\ tid \notin AcceptedIds'
             /\ cancelled_trades'[tid].status = "cancelled"
             /\ last'.agent = open_trades[tid].seller_id
       /\ \A tid \in DOMAIN open_trades \ DOMAIN open_trades' :
             tid \in AcceptedIds' \/ tid \in DOMAIN cancelled_trades'
       /\ (last'.op \in {"accept_trade", "cancel_trade"} /\ last'.ok) =>
             last'.trade \in DOMAIN open_trades
    ]_vars

\* one offer has been accepted, another cancelled, and a second cancellation
\* of the cancelled one has just been refused
C33_Witness ==
    /\ last.op = "cancel_trade" /\ ~last.ok
    /\ last.trade \in DOMAIN cancelled_trades
    /\ last.agent = cancelled_trades[last.trade].seller_id
    /\ Len(completed_trades) = 1
    /\ completed_trades[1].buyer_id # completed_trades[1].seller_id

\* the seller has just been refused its own offer, which stays open
C33_RefusedOwn ==
    /\ last.op = "accept_trade" /\ ~last.ok
    /\ last.trade \in DOMAIN open_trades
    /\ open_trades[last.trade].seller_id = last.buyer
    /\ func_tokens[last.buyer] >= open_trades[last.trade].asking.amount

\* C34: in every duel of the history the winner and the loser are two
\* different agents.
C34_WinnerIsNotLoser ==
    \A i \in DOMAIN duel_history : duel_history[i].winner_id # duel_history[i].loser_id

\* an agent has just fought itself: it is the winner and the loser of the
\* duel, and its record counts a win and a loss
C34_Witness ==
    /\ last.op = "duel" /\ last.ok /\ last.challenger = last.target
    /\ Len(duel_history) = 1
    /\ duel_history[1].winner_id = last.challenger
    /\ duel_history[1].loser_id = last.challenger
    /\ duel_record[last.challenger].wins = 1
    /\ duel_record[last.challenger].losses = 1

\* C35: a throw_party that fails leaves every balance, every clout and the
\* parties as they were, and a throw_party that succeeds registers one party
\* and takes the cost of 20 from the balances.
C35_FailedPartyIsFree ==
    [][last'.op = "throw_party" =>
          IF last'.ok
          THEN /\ Len(parties') = Len(parties) + 1
               /\ SumFunc(func_tokens') = SumFunc(func_tokens) - FUNC_COSTS.throw_party
          ELSE UNCHANGED <<func_tokens, clout, parties>>
    ]_vars

\* a party with an unknown vibe has just been refused, no party was ever
\* thrown, nothing was traded, bought or wagered, and the host has 80 FUNC
C35_Witness ==
    /\ last.op = "throw_party" /\ ~last.ok
    /\ parties = <<>> /\ transaction_history = <<>> /\ duel_history = <<>>
    /\ \E host \in 1..n_agents : func_tokens[host] = StartingFunc - FUNC_COSTS.throw_party

\* C39: for every duel appended to the history, the clout of the winner
\* rises by the clout_earned of its spoils and the clout of the loser falls
\* by the clout_lost of its spoils.
C39_CloutMatchesSpoils ==
    [][Len(duel_history') = Len(duel_history) + 1 =>
          LET d == duel_history'[Len(duel_history')] IN
          d.winner_id # d.loser_id =>
              /\ clout'[d.winner_id] = clout[d.winner_id] + d.spoils.clout_earned
              /\ clout'[d.loser_id] = clout[d.loser_id] - d.spoils.clout_lost
    ]_vars

\* the first duel between two agents has just been fought: its spoils report
\* 15 clout earned and 5 lost, the winner has 18 clout and the loser 0
C39_Witness ==
    /\ last.op = "duel" /\ last.ok /\ last.challenger # last.target
    /\ Len(duel_history) = 1
    /\ duel_history[1].spoils.clout_earned = 15
    /\ duel_history[1].spoils.clout_lost = 5
    /\ clout[duel_history[1].winner_id] = CLOUT_REWARDS.prank_success
    /\ clout[duel_history[1].loser_id] = StartingClout

\* C36: the status of a proposal changes only in advance_tick (a vote never
\* resolves a proposal, also not the vote that completes the quorum), and
\* every proposal that is active with at least min_votes votes when
\* advance_tick runs is not active when the tick ends.
C36_ResolvedByTheTick ==
    [][/\ \A pid \in DOMAIN proposals :
             /\ pid \in DOMAIN proposals'
             /\ proposals'[pid].status # proposals[pid].status =>
                   last'.op = "advance_tick"
       /\ last'.op = "advance_tick" =>
             \A pid \in DOMAIN proposals :
                (/\ proposals[pid].status = "active"
                 /\ Cardinality(DOMAIN proposals[pid].votes) >= min_votes(n_agents))
                => proposals'[pid].status # "active"
    ]_vars

\* a tick has just resolved a proposal that had exactly the quorum of votes
C36_Witness ==
    /\ last.op = "advance_tick"
    /\ \E pid \in DOMAIN proposals :
          /\ proposals[pid].status \in {"passed", "failed"}
          /\ Cardinality(DOMAIN proposals[pid].votes) = min_votes(n_agents)

\* the vote that completes the quorum has just been cast, and the proposal
\* is still active
C36_QuorumVote ==
    /\ last.op = "vote" /\ last.ok
    /\ \E pid \in DOMAIN proposals :
          /\ proposals[pid].status = "active"
          /\ Cardinality(DOMAIN proposals[pid].votes) = min_votes(n_agents)

(***************************************************************************)
(* The omens specification: one agent or none, rumors started before the   *)
(* first tick, and ticks in which every random roll of the landlord can    *)
(* fall either way.                                                        *)
(***************************************************************************)
Rumors == <<"r1", "r2", "r3", "r4", "r5">>
Tenants == {"chaos_gremlin", "nerd"}
\* the random decrees of evaluate_tick
RandomCatalog ==
    {"floor_3_glitch", "floor_2_fork", "kitchen_incident", "basement_activity",
     "elevator_decree", "relationship_drama"}
\* every roll falls short, or one of them succeeds, or all of them do
AllOmens ==
    {omen \in [chaos : BOOLEAN, gossip : BOOLEAN, trigger : {"none", "floor_2_fork"},
               event : {"none", "Fire Drill"}] :
        LET hits == (IF omen.chaos THEN 1 ELSE 0) + (IF omen.gossip THEN 1 ELSE 0)
                      + (IF omen.trigger # "none" THEN 1 ELSE 0)
                      + (IF omen.event # "none" THEN 1 ELSE 0)
        IN hits \in {0, 1, 4}}
MaxOmenTick == 32
MaxPortents == 1

\* the decrees and events so far that a random roll has brought
Portents ==
    Len(events)
      + Cardinality({i \in DOMAIN decrees : decrees[i].trigger # "periodic_wisdom"})

NextOmens ==
    \/ \E p \in Tenants : tick = 0 /\ Register(1, p)
    \/ /\ tick = 0
       /\ Cardinality(DOMAIN active_chains) < Len(Rumors)
       /\ StartGossip(1, Rumors[Cardinality(DOMAIN active_chains) + 1], "psst")
    \/ /\ tick < MaxOmenTick
       /\ AdvanceTick(PlainDraws,
                      IF Portents < MaxPortents THEN AllOmens ELSE QuietOmens)

OmensInit ==
    IdleParty /\ IdleLedger /\ IdleWorld /\ IdlePolitics /\ IdleGossip /\ IdleEconomy
    /\ IdleSocial /\ IdleDuel /\ IdleLandlord /\ IdleQuests /\ IdleLog /\ IdlePersist /\ IdleLoop /\ IdleAgents /\ IdleOffers /\ last = NoCall

SpecOmens == OmensInit /\ [][NextOmens]_vars

\* the decrees a step has added
NewDecrees == SubSeq(decrees', Len(decrees) + 1, Len(decrees'))
\* the building events a step has added
NewEvents == SubSeq(events', Len(events) + 1, Len(events'))

\* C37: decrees and events are only added by a tick, to the end of their
\* lists and dated with the new tick T; a high-chaos decree is added only if
\* the agents' chaos stats sum to more than 7 times their number, a
\* gossip-overflow decree only if more than 4 chains were active before the
\* tick's auto-spread and retirement, a decree of the random catalog only
\* if T > 5, an event only if T > 3, and a periodic decree is added exactly
\* if T > 0 and T is divisible by 25.
C37_TriggersRespectGuards ==
    [][/\ Len(decrees') >= Len(decrees) /\ Len(events') >= Len(events)
       /\ SubSeq(decrees', 1, Len(decrees)) = decrees
       /\ SubSeq(events', 1, Len(events)) = events
       /\ tick' = tick => decrees' = decrees /\ events' = events
       /\ \A i \in DOMAIN NewDecrees :
             LET dec == NewDecrees[i]
             IN /\ dec.tick = tick'
                /\ dec.trigger = "high_chaos" =>
                      n_agents > 0 /\ total_chaos(n_agents) > 7 * n_agents
                /\ dec.trigger = "gossip_overflow" =>
                      Cardinality(DOMAIN active_chains) > 4
                /\ dec.trigger \in RandomCatalog => tick' > 5
       /\ \A i \in DOMAIN NewEvents :
             NewEvents[i].tick = tick' /\ tick' > 3
       /\ tick' # tick =>
             ((\E i \in DOMAIN NewDecrees : NewDecrees[i].trigger = "periodic_wisdom")
                <=> (tick' > 0 /\ tick' % 25 = 0))
    ]_vars

\* every trigger has fired: the periodic decree at tick 25, and at tick 31,
\* the tick that retires the five rumors, a high-chaos, a gossip-overflow and
\* a random decree and a building event
C37_Witness ==
    /\ tick = 31 /\ active_chains = <<>> /\ Len(completed_chains) = 5
    /\ Len(decrees) = 4
    /\ decrees[1].trigger = "periodic_wisdom" /\ decrees[1].tick = 25
    /\ decrees[2].trigger = "high_chaos" /\ decrees[2].tick = 31
    /\ decrees[3].trigger = "gossip_overflow" /\ decrees[3].tick = 31
    /\ decrees[4].trigger = "floor_2_fork" /\ decrees[4].tick = 31
    /\ Len(events) = 1 /\ events[1].tick = 31

=============================================================================
